---- MODULE Spec2Model ----
(***************************************************************************)
(* The stochastic address manager (CAddrMan) as a state machine.           *)
(*                                                                         *)
(* Every C++ method is an operator from a manager state S (a record of     *)
(* the class's fields) to the state it leaves, or to a record [st, ret]    *)
(* when it also returns a value.  The actions at the end of the module     *)
(* apply the public operations to the variables.  Draws from insecure_rand *)
(* and readings of the clock are inputs of the operators.                  *)
(***************************************************************************)
EXTENDS Integers, Sequences, FiniteSets, TLC

VARIABLES
    nIdCount,            \* last used nId
    mapInfo,             \* nId -> CAddrInfo
    mapAddr,             \* CNetAddr -> nId
    vRandom,             \* randomly-ordered vector of all nIds
    nTried,              \* number of "tried" entries
    vvTried,             \* (bucket, position) -> nId; an absent slot is -1
    nNew,                \* number of (unique) "new" entries
    vvNew,               \* (bucket, position) -> nId; an absent slot is -1
    nLastGood,           \* last time Good was called
    m_tried_collisions,  \* ids waiting for test-before-evict
    nKey,                \* secret key of the bucket hashes
    m_asmap,             \* prefix -> AS number; empty when no asmap is loaded
    failed,              \* an assert() of the code has failed (the process aborted)
    now,                 \* GetAdjustedTime()
    nOps,                \* number of public operations performed so far
    calledSources,       \* history: the sources Add(AddrA, source) was called with
    attemptRun,          \* history: the Attempt(AddrA, true, t) calls since the last Good
    sel,                 \* the locals of a Select_ call in progress
    threads,             \* the mutex cs and the threads calling public operations
    tracker              \* the TxDownloadState of one peer

vars == <<nIdCount, mapInfo, mapAddr, vRandom, nTried, vvTried, nNew, vvNew,
          nLastGood, m_tried_collisions, nKey, m_asmap, failed, now, nOps,
          calledSources, attemptRun, sel, threads, tracker>>

\* The variables that are not fields of the manager nor its history.
localVars == <<sel, threads, tracker>>

(***************************************************************************)
(* Program constants.                                                      *)
(***************************************************************************)
ADDRMAN_TRIED_BUCKET_COUNT_LOG2 == 8
ADDRMAN_NEW_BUCKET_COUNT_LOG2 == 10
ADDRMAN_BUCKET_SIZE_LOG2 == 6
ADDRMAN_TRIED_BUCKETS_PER_GROUP == 8
ADDRMAN_NEW_BUCKETS_PER_SOURCE_GROUP == 64
ADDRMAN_NEW_BUCKETS_PER_ADDRESS == 8
ADDRMAN_HORIZON_DAYS == 30
ADDRMAN_RETRIES == 3
ADDRMAN_MAX_FAILURES == 10
ADDRMAN_MIN_FAIL_DAYS == 7
ADDRMAN_REPLACEMENT_HOURS == 4
ADDRMAN_SET_TRIED_COLLISION_SIZE == 10
ADDRMAN_TRIED_BUCKET_COUNT == 2 ^ ADDRMAN_TRIED_BUCKET_COUNT_LOG2
ADDRMAN_NEW_BUCKET_COUNT == 2 ^ ADDRMAN_NEW_BUCKET_COUNT_LOG2
ADDRMAN_BUCKET_SIZE == 2 ^ ADDRMAN_BUCKET_SIZE_LOG2
ADDRMAN_TEST_WINDOW == 40 * 60

(***************************************************************************)
(* Bounds of the model.                                                    *)
(***************************************************************************)
\* Create is not called once nIdCount has reached MaxIds.
MaxIds == 2
\* Attempt is not called on a record with MaxAttempts counted failures.
MaxAttempts == 1
\* Public operations in one run.
MaxOps == 5
\* Public operations in one run of SpecShort.
MaxShortOps == 4
\* The clock at construction, in seconds.
StartTime == 1600000000
\* Announcements of a peer that wait in the unrequested index in SpecTracker.
MaxPending == 2
\* Calls out of the request loop in one run of SpecTracker.
MaxOtherCalls == 1

\* Seconds the clock advances in one run of SpecClock; one more is the number of
\* Attempt calls between two Good calls.
MaxTicks == 2

Max(a, b) == IF a >= b THEN a ELSE b
Min(a, b) == IF a <= b THEN a ELSE b

(***************************************************************************)
(* Network addresses.  A CNetAddr is <<group, host>>: its /16-equivalent   *)
(* prefix and the rest; a CService adds a port.                            *)
(***************************************************************************)
NoAddr == <<0, 0>>
\* Two routable addresses of different groups, and one that is not routable.
AddrA == <<157, 71>>
AddrB == <<160, 95>>
AddrLocal == <<0, 1>>
Ips == {AddrLocal, AddrA, AddrB}
DefaultPort == 8333
Ports == {DefaultPort, DefaultPort + 1}

IsRoutable(ip) == ip[1] # 0
IsValid(ip) == ip # NoAddr

\* CNetAddr::GetGroup: the AS number when the asmap maps the prefix, else the prefix.
GetGroup(ip, asmap) ==
    IF ip[1] \in DOMAIN asmap THEN <<1000 + asmap[ip[1]]>> ELSE <<ip[1]>>

\* CService::GetKey: the address bytes followed by the port.
GetKey(info) == <<info.ip[1], info.ip[2], info.port>>

\* CHashWriter::GetCheapHash of a serialized tuple: a fixed mixing function of
\* all the words written, narrowed from 64 bits.
RECURSIVE CheapHashFrom(_, _)
CheapHashFrom(h, s) ==
    IF s = <<>> THEN h
    ELSE CheapHashFrom((h * 251 + Head(s) + 1) % 65521, Tail(s))

CheapHash(s) == CheapHashFrom(7, s)

(***************************************************************************)
(* CAddrInfo                                                               *)
(***************************************************************************)
\* CAddrInfo(): the default-constructed record.
EmptyInfo ==
    [ip |-> NoAddr, port |-> 0, nTime |-> 100000000, nServices |-> {},
     source |-> NoAddr, nLastTry |-> 0, nLastCountAttempt |-> 0,
     nLastSuccess |-> 0, nAttempts |-> 0, nRefCount |-> 0,
     fInTried |-> FALSE, nRandomPos |-> -1]

\* CAddrInfo(addrIn, addrSource)
NewInfo(addr, addrSource) ==
    [EmptyInfo EXCEPT !.ip = addr.ip, !.port = addr.port, !.nTime = addr.nTime,
                      !.nServices = addr.nServices, !.source = addrSource]

GetTriedBucket(info, key, asmap) ==
    LET hash1 == CheapHash(<<key>> \o GetKey(info))
        hash2 == CheapHash(<<key>> \o GetGroup(info.ip, asmap)
                           \o <<hash1 % ADDRMAN_TRIED_BUCKETS_PER_GROUP>>)
    IN  hash2 % ADDRMAN_TRIED_BUCKET_COUNT

GetNewBucket(info, key, src, asmap) ==
    LET vchSourceGroupKey == GetGroup(src, asmap)
        hash1 == CheapHash(<<key>> \o GetGroup(info.ip, asmap) \o vchSourceGroupKey)
        hash2 == CheapHash(<<key>> \o vchSourceGroupKey
                           \o <<hash1 % ADDRMAN_NEW_BUCKETS_PER_SOURCE_GROUP>>)
    IN  hash2 % ADDRMAN_NEW_BUCKET_COUNT

\* 'N' is 78 and 'K' is 75.
GetBucketPosition(info, key, fNew, nBucket) ==
    LET hash1 == CheapHash(<<key, IF fNew THEN 78 ELSE 75, nBucket>> \o GetKey(info))
    IN  hash1 % ADDRMAN_BUCKET_SIZE

IsTerrible(info, nNow) ==
    IF info.nLastTry # 0 /\ info.nLastTry >= nNow - 60 THEN FALSE
    ELSE IF info.nTime > nNow + 10 * 60 THEN TRUE
    ELSE IF info.nTime = 0 \/ nNow - info.nTime > ADDRMAN_HORIZON_DAYS * 24 * 60 * 60 THEN TRUE
    ELSE IF info.nLastSuccess = 0 /\ info.nAttempts >= ADDRMAN_RETRIES THEN TRUE
    ELSE IF nNow - info.nLastSuccess > ADDRMAN_MIN_FAIL_DAYS * 24 * 60 * 60
            /\ info.nAttempts >= ADDRMAN_MAX_FAILURES THEN TRUE
    ELSE FALSE

(***************************************************************************)
(* The manager's fields as one record, and the two bucket tables.          *)
(***************************************************************************)
St ==
    [nIdCount |-> nIdCount, mapInfo |-> mapInfo, mapAddr |-> mapAddr,
     vRandom |-> vRandom, nTried |-> nTried, vvTried |-> vvTried, nNew |-> nNew,
     vvNew |-> vvNew, nLastGood |-> nLastGood,
     m_tried_collisions |-> m_tried_collisions, nKey |-> nKey,
     m_asmap |-> m_asmap, failed |-> failed]

\* vv[nBucket][nPos]
Slot(vv, nBucket, nPos) ==
    IF <<nBucket, nPos>> \in DOMAIN vv THEN vv[<<nBucket, nPos>>] ELSE -1

\* vv[nBucket][nPos] = nId
Put(vv, nBucket, nPos, nId) ==
    IF nId = -1
    THEN [s \in DOMAIN vv \ {<<nBucket, nPos>>} |-> vv[s]]
    ELSE [s \in DOMAIN vv \cup {<<nBucket, nPos>>} |->
              IF s = <<nBucket, nPos>> THEN nId ELSE vv[s]]

\* m[k] = v of a std::map
MapPut(m, k, v) == [x \in DOMAIN m \cup {k} |-> IF x = k THEN v ELSE m[x]]

\* m.erase(k)
MapErase(m, k) == [x \in DOMAIN m \ {k} |-> m[x]]

\* A failed assert(): the process aborts.
Abort(S) == [S EXCEPT !.failed = TRUE]

\* CAddrMan::size
size(S) == Len(S.vRandom)

\* CAddrMan::Find: [found, nId]; nId is set as soon as mapAddr knows the address.
Find(S, ip) ==
    IF ip \notin DOMAIN S.mapAddr THEN [found |-> FALSE, nId |-> -1]
    ELSE [found |-> S.mapAddr[ip] \in DOMAIN S.mapInfo, nId |-> S.mapAddr[ip]]

\* A faulty Create that does not append the id to vRandom.
Create_NoRandom(S, addr, addrSource) ==
    LET nId == S.nIdCount
        info == [NewInfo(addr, addrSource) EXCEPT !.nRandomPos = Len(S.vRandom)]
    IN  [st |-> [S EXCEPT !.nIdCount = nId + 1,
                          !.mapInfo = MapPut(S.mapInfo, nId, info),
                          !.mapAddr = MapPut(S.mapAddr, addr.ip, nId)],
         nId |-> nId]

\* CAddrMan::Create: [st, nId]
Create(S, addr, addrSource) ==
    LET nId == S.nIdCount
        info == [NewInfo(addr, addrSource) EXCEPT !.nRandomPos = Len(S.vRandom)]
    IN  [st |-> [S EXCEPT !.nIdCount = nId + 1,
                          !.mapInfo = MapPut(S.mapInfo, nId, info),
                          !.mapAddr = MapPut(S.mapAddr, addr.ip, nId),
                          !.vRandom = Append(S.vRandom, nId)],
         nId |-> nId]

\* CAddrMan::SwapRandom; the positions are unsigned and count from 0.
SwapRandom(S, nRndPos1, nRndPos2) ==
    IF nRndPos1 = nRndPos2 THEN S
    ELSE IF ~(nRndPos1 >= 0 /\ nRndPos1 < Len(S.vRandom)
              /\ nRndPos2 >= 0 /\ nRndPos2 < Len(S.vRandom)) THEN Abort(S)
    ELSE LET nId1 == S.vRandom[nRndPos1 + 1]
             nId2 == S.vRandom[nRndPos2 + 1]
         IN  IF nId1 \notin DOMAIN S.mapInfo \/ nId2 \notin DOMAIN S.mapInfo
             THEN Abort(S)
             ELSE [S EXCEPT !.mapInfo = [S.mapInfo EXCEPT ![nId1].nRandomPos = nRndPos2,
                                                          ![nId2].nRandomPos = nRndPos1],
                            !.vRandom = [S.vRandom EXCEPT ![nRndPos1 + 1] = nId2,
                                                          ![nRndPos2 + 1] = nId1]]

\* A faulty Delete that does not count the entry out of the new table.
Delete_KeepsCount(S, nId) ==
    IF nId \notin DOMAIN S.mapInfo THEN Abort(S)
    ELSE IF S.mapInfo[nId].fInTried \/ S.mapInfo[nId].nRefCount # 0 THEN Abort(S)
    ELSE LET S1 == SwapRandom(S, S.mapInfo[nId].nRandomPos, Len(S.vRandom) - 1)
         IN  IF S1.failed THEN S1
             ELSE [S1 EXCEPT !.vRandom = SubSeq(S1.vRandom, 1, Len(S1.vRandom) - 1),
                             !.mapAddr = MapErase(S1.mapAddr, S1.mapInfo[nId].ip),
                             !.mapInfo = MapErase(S1.mapInfo, nId)]

\* CAddrMan::Delete
Delete(S, nId) ==
    IF nId \notin DOMAIN S.mapInfo THEN Abort(S)
    ELSE IF S.mapInfo[nId].fInTried \/ S.mapInfo[nId].nRefCount # 0 THEN Abort(S)
    ELSE LET S1 == SwapRandom(S, S.mapInfo[nId].nRandomPos, Len(S.vRandom) - 1)
         IN  IF S1.failed THEN S1
             ELSE [S1 EXCEPT !.vRandom = SubSeq(S1.vRandom, 1, Len(S1.vRandom) - 1),
                             !.mapAddr = MapErase(S1.mapAddr, S1.mapInfo[nId].ip),
                             !.mapInfo = MapErase(S1.mapInfo, nId),
                             !.nNew = S1.nNew - 1]

\* CAddrMan::ClearNew
ClearNew(S, nUBucket, nUBucketPos) ==
    IF Slot(S.vvNew, nUBucket, nUBucketPos) = -1 THEN S
    ELSE LET nIdDelete == Slot(S.vvNew, nUBucket, nUBucketPos)
             \* mapInfo[nIdDelete] creates the record when it is missing
             infoDelete == IF nIdDelete \in DOMAIN S.mapInfo
                           THEN S.mapInfo[nIdDelete] ELSE EmptyInfo
         IN  IF ~(infoDelete.nRefCount > 0)
             THEN Abort([S EXCEPT !.mapInfo = MapPut(S.mapInfo, nIdDelete, infoDelete)])
             ELSE LET S1 == [S EXCEPT
                                !.mapInfo = MapPut(S.mapInfo, nIdDelete,
                                    [infoDelete EXCEPT !.nRefCount = infoDelete.nRefCount - 1]),
                                !.vvNew = Put(S.vvNew, nUBucket, nUBucketPos, -1)]
                  IN  IF S1.mapInfo[nIdDelete].nRefCount = 0
                      THEN Delete(S1, nIdDelete)
                      ELSE S1

\* A faulty loop over the new buckets that stops at the first slot holding nId.
NewSlotsOf_FirstOnly(S, nId) ==
    LET slots == {s \in DOMAIN S.vvNew :
                     /\ S.vvNew[s] = nId
                     /\ s[2] = GetBucketPosition(S.mapInfo[nId], S.nKey, TRUE, s[1])}
    IN  IF slots = {} THEN {} ELSE {CHOOSE s \in slots : TRUE}

\* The new slots MakeTried's loop over all buckets finds holding nId.
NewSlotsOf(S, nId) ==
    {s \in DOMAIN S.vvNew :
        /\ S.vvNew[s] = nId
        /\ s[2] = GetBucketPosition(S.mapInfo[nId], S.nKey, TRUE, s[1])}

\* A faulty re-entry of the evicted record that counts the reference and leaves
\* the slot empty.
EnterNewAgain_NoSlot(S, nIdEvict, nUBucket, nUBucketPos) ==
    [S EXCEPT !.mapInfo[nIdEvict].nRefCount = 1,
              !.nNew = S.nNew + 1]

\* A faulty re-entry of the evicted record that leaves its reference count alone.
EnterNewAgain_KeepsRefCount(S, nIdEvict, nUBucket, nUBucketPos) ==
    [S EXCEPT !.vvNew = Put(S.vvNew, nUBucket, nUBucketPos, nIdEvict),
              !.nNew = S.nNew + 1]

\* CAddrMan::MakeTried, "Enter it into the new set again."
EnterNewAgain(S, nIdEvict, nUBucket, nUBucketPos) ==
    [S EXCEPT !.mapInfo[nIdEvict].nRefCount = 1,
              !.vvNew = Put(S.vvNew, nUBucket, nUBucketPos, nIdEvict),
              !.nNew = S.nNew + 1]

\* A faulty MakeTried that takes the tried position from the hash of the new table.
MakeTried_NewPosition(S, nId) ==
    LET slots == NewSlotsOf(S, nId)
        \* remove the entry from all new buckets
        S1 == [S EXCEPT !.vvNew = [s \in DOMAIN S.vvNew \ slots |-> S.vvNew[s]],
                        !.mapInfo[nId].nRefCount = @ - Cardinality(slots),
                        !.nNew = S.nNew - 1]
        info == S1.mapInfo[nId]
        nKBucket == GetTriedBucket(info, S.nKey, S.m_asmap)
        nKBucketPos == GetBucketPosition(info, S.nKey, TRUE, nKBucket)
        nIdEvict == Slot(S1.vvTried, nKBucket, nKBucketPos)
        Place(T) == [T EXCEPT !.vvTried = Put(T.vvTried, nKBucket, nKBucketPos, nId),
                              !.nTried = T.nTried + 1,
                              !.mapInfo[nId].fInTried = TRUE]
    IN  IF info.nRefCount # 0 THEN Abort(S1)
        ELSE IF nIdEvict = -1 THEN Place(S1)
        ELSE IF nIdEvict \notin DOMAIN S1.mapInfo THEN Abort(S1)
        ELSE LET infoOld == S1.mapInfo[nIdEvict]
                 \* remove the to-be-evicted item from the tried set
                 S2 == [S1 EXCEPT !.mapInfo[nIdEvict].fInTried = FALSE,
                                  !.vvTried = Put(S1.vvTried, nKBucket, nKBucketPos, -1),
                                  !.nTried = S1.nTried - 1]
                 \* find which new bucket it belongs to
                 nUBucket == GetNewBucket(infoOld, S.nKey, infoOld.source, S.m_asmap)
                 nUBucketPos == GetBucketPosition(infoOld, S.nKey, TRUE, nUBucket)
                 S3 == ClearNew(S2, nUBucket, nUBucketPos)
             IN  IF S3.failed THEN S3
                 ELSE \* enter it into the new set again
                      Place(EnterNewAgain(S3, nIdEvict, nUBucket, nUBucketPos))

\* CAddrMan::MakeTried
MakeTried(S, nId) ==
    LET slots == NewSlotsOf(S, nId)
        \* remove the entry from all new buckets
        S1 == [S EXCEPT !.vvNew = [s \in DOMAIN S.vvNew \ slots |-> S.vvNew[s]],
                        !.mapInfo[nId].nRefCount = @ - Cardinality(slots),
                        !.nNew = S.nNew - 1]
        info == S1.mapInfo[nId]
        nKBucket == GetTriedBucket(info, S.nKey, S.m_asmap)
        nKBucketPos == GetBucketPosition(info, S.nKey, FALSE, nKBucket)
        nIdEvict == Slot(S1.vvTried, nKBucket, nKBucketPos)
        Place(T) == [T EXCEPT !.vvTried = Put(T.vvTried, nKBucket, nKBucketPos, nId),
                              !.nTried = T.nTried + 1,
                              !.mapInfo[nId].fInTried = TRUE]
    IN  IF info.nRefCount # 0 THEN Abort(S1)
        ELSE IF nIdEvict = -1 THEN Place(S1)
        ELSE IF nIdEvict \notin DOMAIN S1.mapInfo THEN Abort(S1)
        ELSE LET infoOld == S1.mapInfo[nIdEvict]
                 \* remove the to-be-evicted item from the tried set
                 S2 == [S1 EXCEPT !.mapInfo[nIdEvict].fInTried = FALSE,
                                  !.vvTried = Put(S1.vvTried, nKBucket, nKBucketPos, -1),
                                  !.nTried = S1.nTried - 1]
                 \* find which new bucket it belongs to
                 nUBucket == GetNewBucket(infoOld, S.nKey, infoOld.source, S.m_asmap)
                 nUBucketPos == GetBucketPosition(infoOld, S.nKey, TRUE, nUBucket)
                 S3 == ClearNew(S2, nUBucket, nUBucketPos)
             IN  IF S3.failed THEN S3
                 ELSE \* enter it into the new set again
                      Place(EnterNewAgain(S3, nIdEvict, nUBucket, nUBucketPos))

(***************************************************************************)
(* The mutation engine.  addr is a CService [ip, port] or a CAddress       *)
(* [ip, port, nTime, nServices].                                           *)
(***************************************************************************)
\* A faulty comparison that leaves the port out.
ServiceDiffers_IpOnly(info, addr) == info.ip # addr.ip

\* info != addr of two CService values
ServiceDiffers(info, addr) == info.ip # addr.ip \/ info.port # addr.port

\* A faulty test of the size of the collision set that lets one id more in.
CollisionRoom_OffByOne(S) ==
    Cardinality(S.m_tried_collisions) <= ADDRMAN_SET_TRIED_COLLISION_SIZE

\* The collision set takes another id.
CollisionRoom(S) ==
    Cardinality(S.m_tried_collisions) < ADDRMAN_SET_TRIED_COLLISION_SIZE

\* A faulty Good_ that defers the promotion only when the collision set is full.
Good_EvictsUntested(S, addr, test_before_evict, nTime) ==
    LET S0 == [S EXCEPT !.nLastGood = nTime]
        f == Find(S0, addr.ip)
        nId == f.nId
    IN  IF ~f.found THEN S0
        ELSE IF ServiceDiffers(S0.mapInfo[nId], addr) THEN S0
        ELSE LET \* update info
                 S1 == [S0 EXCEPT !.mapInfo[nId].nLastSuccess = nTime,
                                  !.mapInfo[nId].nLastTry = nTime,
                                  !.mapInfo[nId].nAttempts = 0]
                 info == S1.mapInfo[nId]
                 \* which tried bucket to move the entry to
                 tried_bucket == GetTriedBucket(info, S1.nKey, S1.m_asmap)
                 tried_bucket_pos == GetBucketPosition(info, S1.nKey, FALSE, tried_bucket)
             IN  IF info.fInTried THEN S1
                 \* find a bucket it is in now; if none is found, bail out
                 ELSE IF NewSlotsOf(S1, nId) = {} THEN S1
                 ELSE IF test_before_evict
                         /\ Slot(S1.vvTried, tried_bucket, tried_bucket_pos) # -1
                         /\ ~CollisionRoom(S1)
                 THEN S1
                 ELSE MakeTried(S1, nId)

\* A faulty Good_ that also stores the time passed as the advertised time.
Good_UpdatesTime(S, addr, test_before_evict, nTime) ==
    LET S0 == [S EXCEPT !.nLastGood = nTime]
        f == Find(S0, addr.ip)
        nId == f.nId
    IN  IF ~f.found THEN S0
        ELSE IF ServiceDiffers(S0.mapInfo[nId], addr) THEN S0
        ELSE LET \* update info
                 S1 == [S0 EXCEPT !.mapInfo[nId].nTime = nTime,
                                  !.mapInfo[nId].nLastSuccess = nTime,
                                  !.mapInfo[nId].nLastTry = nTime,
                                  !.mapInfo[nId].nAttempts = 0]
                 info == S1.mapInfo[nId]
                 \* which tried bucket to move the entry to
                 tried_bucket == GetTriedBucket(info, S1.nKey, S1.m_asmap)
                 tried_bucket_pos == GetBucketPosition(info, S1.nKey, FALSE, tried_bucket)
             IN  IF info.fInTried THEN S1
                 \* find a bucket it is in now; if none is found, bail out
                 ELSE IF NewSlotsOf(S1, nId) = {} THEN S1
                 ELSE IF test_before_evict
                         /\ Slot(S1.vvTried, tried_bucket, tried_bucket_pos) # -1
                 THEN IF CollisionRoom(S1)
                      THEN [S1 EXCEPT !.m_tried_collisions = @ \cup {nId}]
                      ELSE S1
                 ELSE MakeTried(S1, nId)

\* CAddrMan::Good_
Good_(S, addr, test_before_evict, nTime) ==
    LET S0 == [S EXCEPT !.nLastGood = nTime]
        f == Find(S0, addr.ip)
        nId == f.nId
    IN  IF ~f.found THEN S0
        ELSE IF ServiceDiffers(S0.mapInfo[nId], addr) THEN S0
        ELSE LET \* update info
                 S1 == [S0 EXCEPT !.mapInfo[nId].nLastSuccess = nTime,
                                  !.mapInfo[nId].nLastTry = nTime,
                                  !.mapInfo[nId].nAttempts = 0]
                 info == S1.mapInfo[nId]
                 \* which tried bucket to move the entry to
                 tried_bucket == GetTriedBucket(info, S1.nKey, S1.m_asmap)
                 tried_bucket_pos == GetBucketPosition(info, S1.nKey, FALSE, tried_bucket)
             IN  IF info.fInTried THEN S1
                 \* find a bucket it is in now; if none is found, bail out
                 ELSE IF NewSlotsOf(S1, nId) = {} THEN S1
                 ELSE IF test_before_evict
                         /\ Slot(S1.vvTried, tried_bucket, tried_bucket_pos) # -1
                 THEN IF CollisionRoom(S1)
                      THEN [S1 EXCEPT !.m_tried_collisions = @ \cup {nId}]
                      ELSE S1
                 ELSE MakeTried(S1, nId)

\* 2^n, the nFactor loop of Add_
RECURSIVE Pow2(_)
Pow2(n) == IF n <= 0 THEN 1 ELSE 2 * Pow2(n - 1)

\* A faulty test that lets every record without a reference take an occupied slot.
Overwrites_AnyOccupant(infoExisting, pinfo, nNow) ==
    IsTerrible(infoExisting, nNow) \/ pinfo.nRefCount = 0

\* Add_: "Overwrite the existing new table entry."
Overwrites(infoExisting, pinfo, nNow) ==
    IsTerrible(infoExisting, nNow)
        \/ (infoExisting.nRefCount > 1 /\ pinfo.nRefCount = 0)

\* A faulty second half of Add_ that takes the new position from the hash of the
\* tried table.
AddToNew_TriedPosition(S, nId, source, nNow) ==
    LET pinfo == S.mapInfo[nId]
        nUBucket == GetNewBucket(pinfo, S.nKey, source, S.m_asmap)
        nUBucketPos == GetBucketPosition(pinfo, S.nKey, FALSE, nUBucket)
        nIdExisting == Slot(S.vvNew, nUBucket, nUBucketPos)
        \* mapInfo[...] creates the record when it is missing
        infoExisting == IF nIdExisting \in DOMAIN S.mapInfo
                        THEN S.mapInfo[nIdExisting] ELSE EmptyInfo
        S0 == IF nIdExisting # -1
              THEN [S EXCEPT !.mapInfo = MapPut(S.mapInfo, nIdExisting, infoExisting)]
              ELSE S
        fInsert == \/ nIdExisting = -1
                   \/ Overwrites(infoExisting, pinfo, nNow)
    IN  IF nIdExisting = nId THEN S
        ELSE IF fInsert
        THEN LET S1 == ClearNew(S0, nUBucket, nUBucketPos)
             IN  IF S1.failed THEN S1
                 ELSE [S1 EXCEPT !.mapInfo[nId].nRefCount = @ + 1,
                                 !.vvNew = Put(S1.vvNew, nUBucket, nUBucketPos, nId)]
        ELSE IF pinfo.nRefCount = 0 THEN Delete(S0, nId)
        ELSE S0

\* A faulty second half of Add_ that counts a reference although the slot holds
\* the id already.
AddToNew_CountsRepeat(S, nId, source, nNow) ==
    LET pinfo == S.mapInfo[nId]
        nUBucket == GetNewBucket(pinfo, S.nKey, source, S.m_asmap)
        nUBucketPos == GetBucketPosition(pinfo, S.nKey, TRUE, nUBucket)
        nIdExisting == Slot(S.vvNew, nUBucket, nUBucketPos)
        \* mapInfo[...] creates the record when it is missing
        infoExisting == IF nIdExisting \in DOMAIN S.mapInfo
                        THEN S.mapInfo[nIdExisting] ELSE EmptyInfo
        S0 == IF nIdExisting # -1
              THEN [S EXCEPT !.mapInfo = MapPut(S.mapInfo, nIdExisting, infoExisting)]
              ELSE S
        fInsert == \/ nIdExisting = -1
                   \/ Overwrites(infoExisting, pinfo, nNow)
    IN  IF nIdExisting = nId THEN [S EXCEPT !.mapInfo[nId].nRefCount = @ + 1]
        ELSE IF fInsert
        THEN LET S1 == ClearNew(S0, nUBucket, nUBucketPos)
             IN  IF S1.failed THEN S1
                 ELSE [S1 EXCEPT !.mapInfo[nId].nRefCount = @ + 1,
                                 !.vvNew = Put(S1.vvNew, nUBucket, nUBucketPos, nId)]
        ELSE IF pinfo.nRefCount = 0 THEN Delete(S0, nId)
        ELSE S0

\* The second half of Add_: place nId in the new bucket of (address, source).
AddToNew(S, nId, source, nNow) ==
    LET pinfo == S.mapInfo[nId]
        nUBucket == GetNewBucket(pinfo, S.nKey, source, S.m_asmap)
        nUBucketPos == GetBucketPosition(pinfo, S.nKey, TRUE, nUBucket)
        nIdExisting == Slot(S.vvNew, nUBucket, nUBucketPos)
        \* mapInfo[...] creates the record when it is missing
        infoExisting == IF nIdExisting \in DOMAIN S.mapInfo
                        THEN S.mapInfo[nIdExisting] ELSE EmptyInfo
        S0 == IF nIdExisting # -1
              THEN [S EXCEPT !.mapInfo = MapPut(S.mapInfo, nIdExisting, infoExisting)]
              ELSE S
        fInsert == \/ nIdExisting = -1
                   \/ Overwrites(infoExisting, pinfo, nNow)
    IN  IF nIdExisting = nId THEN S
        ELSE IF fInsert
        THEN LET S1 == ClearNew(S0, nUBucket, nUBucketPos)
             IN  IF S1.failed THEN S1
                 ELSE [S1 EXCEPT !.mapInfo[nId].nRefCount = @ + 1,
                                 !.vvNew = Put(S1.vvNew, nUBucket, nUBucketPos, nId)]
        ELSE IF pinfo.nRefCount = 0 THEN Delete(S0, nId)
        ELSE S0

\* A faulty test of the max reference count that lets one reference more through.
MaxRefReached_OffByOne(pinfo) == pinfo.nRefCount > ADDRMAN_NEW_BUCKETS_PER_ADDRESS

\* The max reference count is reached.
MaxRefReached(pinfo) == pinfo.nRefCount = ADDRMAN_NEW_BUCKETS_PER_ADDRESS

\* A faulty Add_ that also returns true when an existing record gets a reference.
Add_ReturnsInserted(S, addr, source, nTimePenaltyIn, nNow, rnd) ==
    LET f == Find(S, addr.ip)
        nId == f.nId
        \* do not set a penalty for a source's self-announcement
        nTimePenalty == IF addr.ip = source THEN 0 ELSE nTimePenaltyIn
    IN  IF ~IsRoutable(addr.ip) THEN [st |-> S, ret |-> FALSE]
        ELSE IF f.found
        THEN LET pinfo == S.mapInfo[nId]
                 \* periodically update nTime
                 fCurrentlyOnline == nNow - addr.nTime < 24 * 60 * 60
                 nUpdateInterval == IF fCurrentlyOnline THEN 60 * 60 ELSE 24 * 60 * 60
                 nTime1 == IF addr.nTime # 0
                              /\ (pinfo.nTime = 0
                                  \/ pinfo.nTime < addr.nTime - nUpdateInterval - nTimePenalty)
                           THEN Max(0, addr.nTime - nTimePenalty)
                           ELSE pinfo.nTime
                 \* add services
                 S1 == [S EXCEPT !.mapInfo[nId].nTime = nTime1,
                                 !.mapInfo[nId].nServices = @ \cup addr.nServices]
                 nFactor == Pow2(pinfo.nRefCount)
             IN  \* do not update if no new information is present
                 IF addr.nTime = 0 \/ (nTime1 # 0 /\ addr.nTime <= nTime1)
                 THEN [st |-> S1, ret |-> FALSE]
                 \* do not update if the entry was already in the "tried" table
                 ELSE IF pinfo.fInTried THEN [st |-> S1, ret |-> FALSE]
                 \* do not update if the max reference count is reached
                 ELSE IF MaxRefReached(pinfo)
                 THEN [st |-> S1, ret |-> FALSE]
                 \* stochastic test
                 ELSE IF nFactor > 1 /\ rnd % nFactor # 0 THEN [st |-> S1, ret |-> FALSE]
                 ELSE [st |-> AddToNew(S1, nId, source, nNow), ret |-> TRUE]
        ELSE LET c == Create(S, addr, source)
                 S1 == [c.st EXCEPT !.mapInfo[c.nId].nTime = Max(0, @ - nTimePenalty),
                                    !.nNew = @ + 1]
             IN  [st |-> AddToNew(S1, c.nId, source, nNow), ret |-> TRUE]

\* CAddrMan::Add_: [st, ret].  rnd is the draw of insecure_rand.randrange(nFactor)
\* before its reduction to the range.
Add_(S, addr, source, nTimePenaltyIn, nNow, rnd) ==
    LET f == Find(S, addr.ip)
        nId == f.nId
        \* do not set a penalty for a source's self-announcement
        nTimePenalty == IF addr.ip = source THEN 0 ELSE nTimePenaltyIn
    IN  IF ~IsRoutable(addr.ip) THEN [st |-> S, ret |-> FALSE]
        ELSE IF f.found
        THEN LET pinfo == S.mapInfo[nId]
                 \* periodically update nTime
                 fCurrentlyOnline == nNow - addr.nTime < 24 * 60 * 60
                 nUpdateInterval == IF fCurrentlyOnline THEN 60 * 60 ELSE 24 * 60 * 60
                 nTime1 == IF addr.nTime # 0
                              /\ (pinfo.nTime = 0
                                  \/ pinfo.nTime < addr.nTime - nUpdateInterval - nTimePenalty)
                           THEN Max(0, addr.nTime - nTimePenalty)
                           ELSE pinfo.nTime
                 \* add services
                 S1 == [S EXCEPT !.mapInfo[nId].nTime = nTime1,
                                 !.mapInfo[nId].nServices = @ \cup addr.nServices]
                 nFactor == Pow2(pinfo.nRefCount)
             IN  \* do not update if no new information is present
                 IF addr.nTime = 0 \/ (nTime1 # 0 /\ addr.nTime <= nTime1)
                 THEN [st |-> S1, ret |-> FALSE]
                 \* do not update if the entry was already in the "tried" table
                 ELSE IF pinfo.fInTried THEN [st |-> S1, ret |-> FALSE]
                 \* do not update if the max reference count is reached
                 ELSE IF MaxRefReached(pinfo)
                 THEN [st |-> S1, ret |-> FALSE]
                 \* stochastic test
                 ELSE IF nFactor > 1 /\ rnd % nFactor # 0 THEN [st |-> S1, ret |-> FALSE]
                 ELSE [st |-> AddToNew(S1, nId, source, nNow), ret |-> FALSE]
        ELSE LET c == Create(S, addr, source)
                 S1 == [c.st EXCEPT !.mapInfo[c.nId].nTime = Max(0, @ - nTimePenalty),
                                    !.nNew = @ + 1]
             IN  [st |-> AddToNew(S1, c.nId, source, nNow), ret |-> TRUE]

\* A faulty Attempt_ that also counts a failure counted at the time of the last Good.
Attempt_CountsAtGoodTime(S, addr, fCountFailure, nTime) ==
    LET f == Find(S, addr.ip)
        nId == f.nId
    IN  IF ~f.found THEN S
        ELSE IF ServiceDiffers(S.mapInfo[nId], addr) THEN S
        ELSE LET S1 == [S EXCEPT !.mapInfo[nId].nLastTry = nTime]
             IN  IF fCountFailure /\ S.mapInfo[nId].nLastCountAttempt <= S.nLastGood
                 THEN [S1 EXCEPT !.mapInfo[nId].nLastCountAttempt = nTime,
                                 !.mapInfo[nId].nAttempts = @ + 1]
                 ELSE S1

\* A faulty Attempt_ that counts every failure.
Attempt_CountsEvery(S, addr, fCountFailure, nTime) ==
    LET f == Find(S, addr.ip)
        nId == f.nId
    IN  IF ~f.found THEN S
        ELSE IF ServiceDiffers(S.mapInfo[nId], addr) THEN S
        ELSE LET S1 == [S EXCEPT !.mapInfo[nId].nLastTry = nTime]
             IN  IF fCountFailure
                 THEN [S1 EXCEPT !.mapInfo[nId].nLastCountAttempt = nTime,
                                 !.mapInfo[nId].nAttempts = @ + 1]
                 ELSE S1

\* A faulty Attempt_ that records the try before comparing the port.
Attempt_BeforePortTest(S, addr, fCountFailure, nTime) ==
    LET f == Find(S, addr.ip)
        nId == f.nId
    IN  IF ~f.found THEN S
        ELSE LET S1 == [S EXCEPT !.mapInfo[nId].nLastTry = nTime]
             IN  IF ServiceDiffers(S.mapInfo[nId], addr) THEN S1
                 ELSE IF fCountFailure /\ S.mapInfo[nId].nLastCountAttempt < S.nLastGood
                 THEN [S1 EXCEPT !.mapInfo[nId].nLastCountAttempt = nTime,
                                 !.mapInfo[nId].nAttempts = @ + 1]
                 ELSE S1

\* CAddrMan::Attempt_
Attempt_(S, addr, fCountFailure, nTime) ==
    LET f == Find(S, addr.ip)
        nId == f.nId
    IN  IF ~f.found THEN S
        ELSE IF ServiceDiffers(S.mapInfo[nId], addr) THEN S
        ELSE LET S1 == [S EXCEPT !.mapInfo[nId].nLastTry = nTime]
             IN  IF fCountFailure /\ S.mapInfo[nId].nLastCountAttempt < S.nLastGood
                 THEN [S1 EXCEPT !.mapInfo[nId].nLastCountAttempt = nTime,
                                 !.mapInfo[nId].nAttempts = @ + 1]
                 ELSE S1

\* CAddrMan::Connected_
Connected_(S, addr, nTime) ==
    LET f == Find(S, addr.ip)
        nId == f.nId
        nUpdateInterval == 20 * 60
    IN  IF ~f.found THEN S
        ELSE IF ServiceDiffers(S.mapInfo[nId], addr) THEN S
        ELSE IF nTime - S.mapInfo[nId].nTime > nUpdateInterval
        THEN [S EXCEPT !.mapInfo[nId].nTime = nTime]
        ELSE S

\* CAddrMan::SetServices_
SetServices_(S, addr, nServices) ==
    LET f == Find(S, addr.ip)
        nId == f.nId
    IN  IF ~f.found THEN S
        ELSE IF ServiceDiffers(S.mapInfo[nId], addr) THEN S
        ELSE [S EXCEPT !.mapInfo[nId].nServices = nServices]

\* CAddrMan::Clear.  key is the draw of insecure_rand.rand256().
Clear(S, deterministic, key) ==
    [S EXCEPT !.vRandom = <<>>,
              !.nKey = IF deterministic THEN 0 ELSE key,
              !.vvNew = <<>>,
              !.vvTried = <<>>,
              !.nIdCount = 0,
              !.nTried = 0,
              !.nNew = 0,
              !.nLastGood = 1,
              !.mapInfo = <<>>,
              !.mapAddr = <<>>]

\* The ids of a std::set<int> in iteration order.
RECURSIVE SortedIds(_)
SortedIds(ids) ==
    IF ids = {} THEN <<>>
    ELSE LET m == CHOOSE x \in ids : \A y \in ids : x <= y
         IN  <<m>> \o SortedIds(ids \ {m})

(***************************************************************************)
(* Serialization.  A stream is the record of the values written, in the    *)
(* order of the format: the header, the records of the new table, the      *)
(* records of the tried table, for each new bucket the indices it holds,   *)
(* and the version of the asmap.                                           *)
(***************************************************************************)
\* Format::V3_BIP155
V3_BIP155 == 3

\* SERIALIZE_METHODS(CAddrInfo): the CAddress, then source, nLastSuccess and
\* nAttempts.  The other fields are memory only.
WriteInfo(info) ==
    [ip |-> info.ip, port |-> info.port, nTime |-> info.nTime,
     nServices |-> info.nServices, source |-> info.source,
     nLastSuccess |-> info.nLastSuccess, nAttempts |-> info.nAttempts]

\* s >> info on a default-constructed CAddrInfo
ReadInfo(w) ==
    [EmptyInfo EXCEPT !.ip = w.ip, !.port = w.port, !.nTime = w.nTime,
                      !.nServices = w.nServices, !.source = w.source,
                      !.nLastSuccess = w.nLastSuccess, !.nAttempts = w.nAttempts]

\* x ^ (1 << 30)
XorBit30(x) == IF (x \div 2^30) % 2 = 1 THEN x - 2^30 ELSE x + 2^30

\* The words of an asmap, in the order of its prefixes.
RECURSIVE AsmapWords(_, _)
AsmapWords(asmap, prefixes) ==
    IF prefixes = {} THEN <<>>
    ELSE LET p == CHOOSE x \in prefixes : \A y \in prefixes : x <= y
         IN  <<p, asmap[p]>> \o AsmapWords(asmap, prefixes \ {p})

\* asmap_version: the null uint256 without an asmap, else SerializeHash(m_asmap).
AsmapVersion(asmap) ==
    IF DOMAIN asmap = {} THEN 0 ELSE 1 + CheapHash(AsmapWords(asmap, DOMAIN asmap))

\* mapUnkIds[nId]: the number of records with a reference that precede nId in
\* mapInfo; 0 for an id that mapInfo does not hold.
MapUnkIds(S, nId) ==
    IF nId \notin DOMAIN S.mapInfo THEN 0
    ELSE Cardinality({n \in DOMAIN S.mapInfo : n < nId /\ S.mapInfo[n].nRefCount # 0})

\* The records mapInfo holds that pass the test, in the order of their ids.
RECURSIVE InfosOf(_, _)
InfosOf(S, ids) ==
    IF ids = {} THEN <<>>
    ELSE LET n == CHOOSE x \in ids : \A y \in ids : x <= y
         IN  <<WriteInfo(S.mapInfo[n])>> \o InfosOf(S, ids \ {n})

\* The indices written for one bucket, in the order of the positions.
RECURSIVE BucketIndices(_, _, _)
BucketIndices(S, bucket, positions) ==
    IF positions = {} THEN <<>>
    ELSE LET i == CHOOSE x \in positions : \A y \in positions : x <= y
         IN  <<MapUnkIds(S, S.vvNew[<<bucket, i>>])>>
             \o BucketIndices(S, bucket, positions \ {i})

\* CAddrMan::Serialize: [ok, s]; ok is false when one of its asserts fails.
\* buckets lists the buckets that hold an index; every other bucket is written
\* with size 0.
Serialize(S) ==
    LET newIds == {n \in DOMAIN S.mapInfo : S.mapInfo[n].nRefCount # 0}
        triedIds == {n \in DOMAIN S.mapInfo : S.mapInfo[n].fInTried}
        used == {slot[1] : slot \in DOMAIN S.vvNew}
    IN  [ok |-> Cardinality(newIds) <= S.nNew /\ Cardinality(triedIds) <= S.nTried,
         s |-> [format |-> V3_BIP155,
                nKeySize |-> 32,
                nKey |-> S.nKey,
                nNew |-> S.nNew,
                nTried |-> S.nTried,
                nUBuckets |-> XorBit30(ADDRMAN_NEW_BUCKET_COUNT),
                newInfos |-> InfosOf(S, newIds),
                triedInfos |-> InfosOf(S, triedIds),
                buckets |-> [bucket \in used |->
                                BucketIndices(S, bucket,
                                    {slot[2] : slot \in {x \in DOMAIN S.vvNew : x[1] = bucket}})],
                asmap_version |-> AsmapVersion(S.m_asmap)]]

\* CAddrMan::ConsistencyCheck: TRUE when every assert passes.
ConsistencyCheck(S) ==
    LET setTried == {n \in DOMAIN S.mapInfo : S.mapInfo[n].fInTried}
        mapNew == {n \in DOMAIN S.mapInfo : ~S.mapInfo[n].fInTried}
    IN  /\ Len(S.vRandom) = S.nTried + S.nNew
        /\ \A n \in DOMAIN S.mapInfo :
              LET info == S.mapInfo[n]
              IN  /\ IF info.fInTried
                     THEN info.nLastSuccess # 0 /\ info.nRefCount = 0
                     ELSE /\ info.nRefCount >= 0
                          /\ info.nRefCount <= ADDRMAN_NEW_BUCKETS_PER_ADDRESS
                          /\ info.nRefCount # 0
                  \* mapAddr[info] gives 0 for an address it does not hold
                  /\ (IF info.ip \in DOMAIN S.mapAddr THEN S.mapAddr[info.ip] ELSE 0) = n
                  /\ info.nRandomPos >= 0
                  /\ info.nRandomPos < Len(S.vRandom)
                  /\ S.vRandom[info.nRandomPos + 1] = n
                  /\ info.nLastTry >= 0
                  /\ info.nLastSuccess >= 0
        /\ Cardinality(setTried) = S.nTried
        /\ Cardinality(mapNew) = S.nNew
        /\ \A slot \in DOMAIN S.vvTried :
              /\ S.vvTried[slot] \in setTried
              /\ GetTriedBucket(S.mapInfo[S.vvTried[slot]], S.nKey, S.m_asmap) = slot[1]
              /\ GetBucketPosition(S.mapInfo[S.vvTried[slot]], S.nKey, FALSE, slot[1]) = slot[2]
        /\ \A n \in setTried : Cardinality({slot \in DOMAIN S.vvTried : S.vvTried[slot] = n}) = 1
        /\ \A slot \in DOMAIN S.vvNew :
              /\ S.vvNew[slot] \in mapNew
              /\ GetBucketPosition(S.mapInfo[S.vvNew[slot]], S.nKey, TRUE, slot[1]) = slot[2]
        /\ \A n \in mapNew :
              Cardinality({slot \in DOMAIN S.vvNew : S.vvNew[slot] = n}) = S.mapInfo[n].nRefCount

\* A faulty loop that does not count the tried records it drops.
RECURSIVE ReadTried_CountsNoLoss(_, _, _)
ReadTried_CountsNoLoss(S, infos, nLost) ==
    IF infos = <<>> THEN [st |-> S, nLost |-> nLost]
    ELSE LET info == ReadInfo(Head(infos))
             nKBucket == GetTriedBucket(info, S.nKey, S.m_asmap)
             nKBucketPos == GetBucketPosition(info, S.nKey, FALSE, nKBucket)
         IN  IF Slot(S.vvTried, nKBucket, nKBucketPos) = -1
             THEN ReadTried_CountsNoLoss(
                      [S EXCEPT !.vRandom = Append(S.vRandom, S.nIdCount),
                                !.mapInfo = MapPut(S.mapInfo, S.nIdCount,
                                    [info EXCEPT !.nRandomPos = Len(S.vRandom),
                                                 !.fInTried = TRUE]),
                                !.mapAddr = MapPut(S.mapAddr, info.ip, S.nIdCount),
                                !.vvTried = Put(S.vvTried, nKBucket, nKBucketPos, S.nIdCount),
                                !.nIdCount = S.nIdCount + 1],
                      Tail(infos), nLost)
             ELSE ReadTried_CountsNoLoss(S, Tail(infos), nLost)

\* Unserialize, the loop over the records of the tried table: [st, nLost].
RECURSIVE ReadTried(_, _, _)
ReadTried(S, infos, nLost) ==
    IF infos = <<>> THEN [st |-> S, nLost |-> nLost]
    ELSE LET info == ReadInfo(Head(infos))
             nKBucket == GetTriedBucket(info, S.nKey, S.m_asmap)
             nKBucketPos == GetBucketPosition(info, S.nKey, FALSE, nKBucket)
         IN  IF Slot(S.vvTried, nKBucket, nKBucketPos) = -1
             THEN ReadTried(
                      [S EXCEPT !.vRandom = Append(S.vRandom, S.nIdCount),
                                !.mapInfo = MapPut(S.mapInfo, S.nIdCount,
                                    [info EXCEPT !.nRandomPos = Len(S.vRandom),
                                                 !.fInTried = TRUE]),
                                !.mapAddr = MapPut(S.mapAddr, info.ip, S.nIdCount),
                                !.vvTried = Put(S.vvTried, nKBucket, nKBucketPos, S.nIdCount),
                                !.nIdCount = S.nIdCount + 1],
                      Tail(infos), nLost)
             ELSE ReadTried(S, Tail(infos), nLost + 1)

\* entryToBucket[n] after the loop over the buckets: every bucket that lists
\* the index overwrites the one before, and an index no bucket lists reads 0.
EntryToBucket(s, nUBuckets, nNewRead, n) ==
    LET holding == {bucket \in DOMAIN s.buckets :
                       /\ bucket < nUBuckets
                       /\ \E i \in 1..Len(s.buckets[bucket]) : s.buckets[bucket][i] = n}
    IN  IF holding = {} \/ ~(n >= 0 /\ n < nNewRead) THEN 0
        ELSE CHOOSE bucket \in holding : \A other \in holding : bucket >= other

\* The stored bucket positions can be used: the format knows the asmap, and the
\* bucket count and the asmap are the ones of the stream.
SameBucketing(s, nUBuckets, asmap) ==
    /\ s.format >= 2
    /\ nUBuckets = ADDRMAN_NEW_BUCKET_COUNT
    /\ (IF s.format >= 2 THEN s.asmap_version ELSE 0) = AsmapVersion(asmap)

\* Unserialize, the loop that places records 0 .. nNewRead-1 in the new table.
RECURSIVE PlaceNew(_, _, _, _, _)
PlaceNew(S, s, nUBuckets, nNewRead, n) ==
    IF n >= nNewRead THEN S
    ELSE LET info == S.mapInfo[n]
             bucket == EntryToBucket(s, nUBuckets, nNewRead, n)
             nUBucketPos == GetBucketPosition(info, S.nKey, TRUE, bucket)
             bucket2 == GetNewBucket(info, S.nKey, info.source, S.m_asmap)
             nUBucketPos2 == GetBucketPosition(info, S.nKey, TRUE, bucket2)
         IN  IF /\ SameBucketing(s, nUBuckets, S.m_asmap)
                /\ Slot(S.vvNew, bucket, nUBucketPos) = -1
                /\ info.nRefCount < ADDRMAN_NEW_BUCKETS_PER_ADDRESS
             THEN PlaceNew([S EXCEPT !.vvNew = Put(S.vvNew, bucket, nUBucketPos, n),
                                     !.mapInfo[n].nRefCount = info.nRefCount + 1],
                           s, nUBuckets, nNewRead, n + 1)
             ELSE IF Slot(S.vvNew, bucket2, nUBucketPos2) = -1
             THEN PlaceNew([S EXCEPT !.vvNew = Put(S.vvNew, bucket2, nUBucketPos2, n),
                                     !.mapInfo[n].nRefCount = info.nRefCount + 1],
                           s, nUBuckets, nNewRead, n + 1)
             ELSE PlaceNew(S, s, nUBuckets, nNewRead, n + 1)

\* Unserialize, the loop that deletes the new records left without a reference.
RECURSIVE PruneNew(_, _)
PruneNew(S, ids) ==
    IF ids = <<>> \/ S.failed THEN S
    ELSE PruneNew(Delete(S, Head(ids)), Tail(ids))

\* The stream holds as many records as its header announces.
WellFormed(s) == Len(s.newInfos) = s.nNew /\ Len(s.triedInfos) = s.nTried

\* CAddrMan::Unserialize of a well-formed stream: [st, threw].  key is the draw
\* of Clear().  threw tells that std::ios_base::failure left the function.
Unserialize(S, s, key) ==
    LET S0 == Clear(S, FALSE, key)
        S1 == [S0 EXCEPT !.nKey = s.nKey, !.nNew = s.nNew, !.nTried = s.nTried]
        nUBuckets == IF s.format >= 1 THEN XorBit30(s.nUBuckets) ELSE s.nUBuckets
        ips == {s.newInfos[i].ip : i \in 1..s.nNew}
        S2 == [S1 EXCEPT
                 !.mapInfo = [n \in 0..(s.nNew - 1) |->
                                 [ReadInfo(s.newInfos[n + 1]) EXCEPT !.nRandomPos = n]],
                 !.mapAddr = [ip \in ips |->
                                 CHOOSE n \in 0..(s.nNew - 1) :
                                    /\ s.newInfos[n + 1].ip = ip
                                    /\ \A m \in 0..(s.nNew - 1) :
                                          s.newInfos[m + 1].ip = ip => m <= n],
                 !.vRandom = [i \in 1..s.nNew |-> i - 1],
                 !.nIdCount = s.nNew]
        tried == ReadTried(S2, s.triedInfos, 0)
        S3 == [tried.st EXCEPT !.nTried = s.nTried - tried.nLost]
        S4 == PlaceNew(S3, s, nUBuckets, s.nNew, 0)
        S5 == PruneNew(S4, SortedIds({n \in DOMAIN S4.mapInfo :
                                         /\ ~S4.mapInfo[n].fInTried
                                         /\ S4.mapInfo[n].nRefCount = 0}))
    IN  IF s.format > V3_BIP155 THEN [st |-> S0, threw |-> TRUE]
        ELSE IF s.nKeySize # 32 THEN [st |-> S0, threw |-> TRUE]
        ELSE IF s.nNew > ADDRMAN_NEW_BUCKET_COUNT * ADDRMAN_BUCKET_SIZE
        THEN [st |-> S1, threw |-> TRUE]
        ELSE IF s.nTried > ADDRMAN_TRIED_BUCKET_COUNT * ADDRMAN_BUCKET_SIZE
        THEN [st |-> S1, threw |-> TRUE]
        ELSE [st |-> IF S5.failed \/ ConsistencyCheck(S5) THEN S5 ELSE Abort(S5),
              threw |-> FALSE]

(***************************************************************************)
(* Selection and sampling.                                                 *)
(***************************************************************************)
\* A faulty test for a recent success that has the comparison the wrong way round.
HasRecentSuccess_Reversed(info_old, nNow) ==
    nNow - info_old.nLastSuccess > ADDRMAN_REPLACEMENT_HOURS * (60 * 60)

\* GetAdjustedTime() - info_old.nLastSuccess < ADDRMAN_REPLACEMENT_HOURS*(60*60)
HasRecentSuccess(info_old, nNow) ==
    nNow - info_old.nLastSuccess < ADDRMAN_REPLACEMENT_HOURS * (60 * 60)

\* A faulty iteration that leaves the entry in the set when the occupant has a
\* recent success.
ResolveOne_KeepsEntry(S, id_new, nNow) ==
    IF id_new \notin DOMAIN S.mapInfo
    THEN [S EXCEPT !.m_tried_collisions = @ \ {id_new}]
    ELSE LET info_new == S.mapInfo[id_new]
             tried_bucket == GetTriedBucket(info_new, S.nKey, S.m_asmap)
             tried_bucket_pos == GetBucketPosition(info_new, S.nKey, FALSE, tried_bucket)
             id_old == Slot(S.vvTried, tried_bucket, tried_bucket_pos)
             \* mapInfo[id_old] creates the record when it is missing
             info_old == IF id_old \in DOMAIN S.mapInfo THEN S.mapInfo[id_old] ELSE EmptyInfo
             S0 == IF id_old # -1
                   THEN [S EXCEPT !.mapInfo = MapPut(S.mapInfo, id_old, info_old)]
                   ELSE S
             Erase(T) == [T EXCEPT !.m_tried_collisions = @ \ {id_new}]
             Replace == Erase(Good_(S0, info_new, FALSE, nNow))
         IN  IF ~IsValid(info_new.ip) THEN Erase(S)
             ELSE IF id_old # -1
             THEN \* has successfully connected in last X hours
                  IF HasRecentSuccess(info_old, nNow)
                  THEN S0
                  \* attempted to connect and failed in last X hours
                  ELSE IF nNow - info_old.nLastTry < ADDRMAN_REPLACEMENT_HOURS * (60 * 60)
                  THEN \* give address at least 60 seconds to successfully connect
                       IF nNow - info_old.nLastTry > 60 THEN Replace ELSE S0
                  ELSE IF nNow - info_new.nLastSuccess > ADDRMAN_TEST_WINDOW
                  THEN Replace
                  ELSE S0
             ELSE \* collision is not actually a collision anymore
                  Erase(Good_(S, info_new, FALSE, nNow))

\* One iteration of the loop of ResolveCollisions_, for the entry id_new.
ResolveOne(S, id_new, nNow) ==
    IF id_new \notin DOMAIN S.mapInfo
    THEN [S EXCEPT !.m_tried_collisions = @ \ {id_new}]
    ELSE LET info_new == S.mapInfo[id_new]
             tried_bucket == GetTriedBucket(info_new, S.nKey, S.m_asmap)
             tried_bucket_pos == GetBucketPosition(info_new, S.nKey, FALSE, tried_bucket)
             id_old == Slot(S.vvTried, tried_bucket, tried_bucket_pos)
             \* mapInfo[id_old] creates the record when it is missing
             info_old == IF id_old \in DOMAIN S.mapInfo THEN S.mapInfo[id_old] ELSE EmptyInfo
             S0 == IF id_old # -1
                   THEN [S EXCEPT !.mapInfo = MapPut(S.mapInfo, id_old, info_old)]
                   ELSE S
             Erase(T) == [T EXCEPT !.m_tried_collisions = @ \ {id_new}]
             Replace == Erase(Good_(S0, info_new, FALSE, nNow))
         IN  IF ~IsValid(info_new.ip) THEN Erase(S)
             ELSE IF id_old # -1
             THEN \* has successfully connected in last X hours
                  IF HasRecentSuccess(info_old, nNow)
                  THEN Erase(S0)
                  \* attempted to connect and failed in last X hours
                  ELSE IF nNow - info_old.nLastTry < ADDRMAN_REPLACEMENT_HOURS * (60 * 60)
                  THEN \* give address at least 60 seconds to successfully connect
                       IF nNow - info_old.nLastTry > 60 THEN Replace ELSE S0
                  ELSE IF nNow - info_new.nLastSuccess > ADDRMAN_TEST_WINDOW
                  THEN Replace
                  ELSE S0
             ELSE \* collision is not actually a collision anymore
                  Erase(Good_(S, info_new, FALSE, nNow))

RECURSIVE ResolveFrom(_, _, _)
ResolveFrom(S, ids, nNow) ==
    IF ids = <<>> \/ S.failed THEN S
    ELSE ResolveFrom(ResolveOne(S, Head(ids), nNow), Tail(ids), nNow)

\* CAddrMan::ResolveCollisions_
ResolveCollisions_(S, nNow) == ResolveFrom(S, SortedIds(S.m_tried_collisions), nNow)

\* CAddrMan::SelectTriedCollision_: [st, ret].  rnd is the draw of
\* insecure_rand.randrange(m_tried_collisions.size()).
SelectTriedCollision_(S, rnd) ==
    IF Cardinality(S.m_tried_collisions) = 0 THEN [st |-> S, ret |-> EmptyInfo]
    ELSE LET id_new == SortedIds(S.m_tried_collisions)[rnd + 1]
         IN  IF id_new \notin DOMAIN S.mapInfo
             THEN [st |-> [S EXCEPT !.m_tried_collisions = @ \ {id_new}],
                   ret |-> EmptyInfo]
             ELSE LET newInfo == S.mapInfo[id_new]
                      tried_bucket == GetTriedBucket(newInfo, S.nKey, S.m_asmap)
                      tried_bucket_pos ==
                          GetBucketPosition(newInfo, S.nKey, FALSE, tried_bucket)
                      id_old == Slot(S.vvTried, tried_bucket, tried_bucket_pos)
                  IN  \* return mapInfo[id_old]: creates the record when it is missing
                      IF id_old \in DOMAIN S.mapInfo
                      THEN [st |-> S, ret |-> S.mapInfo[id_old]]
                      ELSE [st |-> [S EXCEPT !.mapInfo = MapPut(S.mapInfo, id_old, EmptyInfo)],
                            ret |-> EmptyInfo]

\* A faulty loop of GetAddr_ that stops one address late.
RECURSIVE GetAddrFrom_OneMore(_, _, _, _, _, _)
GetAddrFrom_OneMore(S, vAddr, nNodes, n, nNow, rnds) ==
    IF n >= Len(S.vRandom) \/ Len(vAddr) > nNodes THEN [st |-> S, ret |-> vAddr]
    ELSE LET nRndPos == rnds[n + 1] + n
             S1 == SwapRandom(S, n, nRndPos)
         IN  IF S1.failed THEN [st |-> S1, ret |-> vAddr]
             ELSE IF S1.vRandom[n + 1] \notin DOMAIN S1.mapInfo
             THEN [st |-> Abort(S1), ret |-> vAddr]
             ELSE LET ai == S1.mapInfo[S1.vRandom[n + 1]]
                  IN  GetAddrFrom_OneMore(S1,
                                  IF ~IsTerrible(ai, nNow) THEN Append(vAddr, ai) ELSE vAddr,
                                  nNodes, n + 1, nNow, rnds)

\* A faulty loop of GetAddr_ that does not test the quality of the records.
RECURSIVE GetAddrFrom_NoTest(_, _, _, _, _, _)
GetAddrFrom_NoTest(S, vAddr, nNodes, n, nNow, rnds) ==
    IF n >= Len(S.vRandom) \/ Len(vAddr) >= nNodes THEN [st |-> S, ret |-> vAddr]
    ELSE LET nRndPos == rnds[n + 1] + n
             S1 == SwapRandom(S, n, nRndPos)
         IN  IF S1.failed THEN [st |-> S1, ret |-> vAddr]
             ELSE IF S1.vRandom[n + 1] \notin DOMAIN S1.mapInfo
             THEN [st |-> Abort(S1), ret |-> vAddr]
             ELSE LET ai == S1.mapInfo[S1.vRandom[n + 1]]
                  IN  GetAddrFrom_NoTest(S1,
                                  Append(vAddr, ai),
                                  nNodes, n + 1, nNow, rnds)

\* The loop of GetAddr_ from position n on.  rnds[n + 1] is the draw of
\* insecure_rand.randrange(vRandom.size() - n).
RECURSIVE GetAddrFrom(_, _, _, _, _, _)
GetAddrFrom(S, vAddr, nNodes, n, nNow, rnds) ==
    IF n >= Len(S.vRandom) \/ Len(vAddr) >= nNodes THEN [st |-> S, ret |-> vAddr]
    ELSE LET nRndPos == rnds[n + 1] + n
             S1 == SwapRandom(S, n, nRndPos)
         IN  IF S1.failed THEN [st |-> S1, ret |-> vAddr]
             ELSE IF S1.vRandom[n + 1] \notin DOMAIN S1.mapInfo
             THEN [st |-> Abort(S1), ret |-> vAddr]
             ELSE LET ai == S1.mapInfo[S1.vRandom[n + 1]]
                  IN  GetAddrFrom(S1,
                                  IF ~IsTerrible(ai, nNow) THEN Append(vAddr, ai) ELSE vAddr,
                                  nNodes, n + 1, nNow, rnds)

\* CAddrMan::GetAddr_: [st, ret]
GetAddr_(S, max_addresses, max_pct, nNow, rnds) ==
    LET nNodes0 == Len(S.vRandom)
        nNodes1 == IF max_pct # 0 THEN (max_pct * nNodes0) \div 100 ELSE nNodes0
        nNodes == IF max_addresses # 0 THEN Min(nNodes1, max_addresses) ELSE nNodes1
    IN  GetAddrFrom(S, <<>>, nNodes, 0, nNow, rnds)

\* The draws GetAddr_ can make on a vector of n ids.
GetAddrDraws(n) == {r \in [1..n -> 0..(n - 1)] : \A i \in 1..n : r[i] < n - (i - 1)}

\* A faulty choice of the table that forgets that the new table may be empty.
SelectUsesTried_NoNewTest(S, newOnly, fRandBool) ==
    ~newOnly /\ S.nTried > 0 /\ ~fRandBool

\* A faulty choice of the table that ignores newOnly.
SelectUsesTried_IgnoresNewOnly(S, newOnly, fRandBool) ==
    S.nTried > 0 /\ (S.nNew = 0 \/ ~fRandBool)

\* Select_ uses a tried node.
SelectUsesTried(S, newOnly, fRandBool) ==
    ~newOnly /\ S.nTried > 0 /\ (S.nNew = 0 \/ ~fRandBool)

\* CAddrMan::Select_: [st, ret].  fRandBool is the draw of randbool(); slot is the
\* filled slot of the chosen table at which the probing and the rejection
\* sampling end (every record has a positive chance).
Select_(S, newOnly, fRandBool, slot) ==
    IF size(S) = 0 THEN [st |-> S, ret |-> EmptyInfo]
    ELSE IF newOnly /\ S.nNew = 0 THEN [st |-> S, ret |-> EmptyInfo]
    ELSE LET vv == IF SelectUsesTried(S, newOnly, fRandBool) THEN S.vvTried ELSE S.vvNew
             nId == vv[slot]
         IN  IF nId \notin DOMAIN S.mapInfo
             THEN [st |-> Abort(S), ret |-> EmptyInfo]
             ELSE [st |-> S, ret |-> S.mapInfo[nId]]

\* The slots at which Select_ can end.
SelectSlots(S, newOnly, fRandBool) ==
    IF size(S) = 0 \/ (newOnly /\ S.nNew = 0) THEN {<<0, 0>>}
    ELSE IF SelectUsesTried(S, newOnly, fRandBool) THEN DOMAIN S.vvTried
    ELSE DOMAIN S.vvNew

(***************************************************************************)
(* Select_ step by step.  Doubles are kept in fixed point: a chance in      *)
(* millionths, the chance factor in thousandths.                            *)
(***************************************************************************)
\* fChance = 1.0
ChanceOne == 1000000
\* fChanceFactor = 1.0
FactorOne == 1000

\* fChance * pow(0.66, n)
RECURSIVE Pow66(_, _)
Pow66(fChance, n) == IF n = 0 THEN fChance ELSE Pow66((fChance * 66) \div 100, n - 1)

\* CAddrInfo::GetChance
GetChance(info, nNow) ==
    LET nSinceLastTry == Max(nNow - info.nLastTry, 0)
        \* deprioritize very recent attempts away
        fChance == IF nSinceLastTry < 60 * 10 THEN ChanceOne \div 100 ELSE ChanceOne
    IN  Pow66(fChance, Min(info.nAttempts, 8))

\* A faulty escalation that leaves the factor as it is.
GrowFactor_Same(fChanceFactor) == fChanceFactor

\* fChanceFactor *= 1.2
GrowFactor(fChanceFactor) == (fChanceFactor * 12) \div 10

\* randbits(30) < fChanceFactor * GetChance() * (1 << 30) whatever randbits draws:
\* the product is at least 1.
MustAccept(fChanceFactor, fChance) ==
    fChanceFactor >= (FactorOne * ChanceOne + fChance - 1) \div fChance

\* The locals of Select_: where the call stands, the table it uses, the slot
\* (nKBucket, nKBucketPos) or (nUBucket, nUBucketPos), the factor, and the record
\* returned.
SelIdle ==
    [pc |-> "idle", useTried |-> FALSE, slot |-> <<0, 0>>,
     fChanceFactor |-> FactorOne, ret |-> EmptyInfo]

\* The table Select_ probes.
SelTable == IF sel.useTried THEN vvTried ELSE vvNew

\* Empty slots of a table; all empty slots behave alike, these stand for them.
EmptySlotSamples(vv) == {<<0, 0>>, <<0, 1>>, <<0, 2>>, <<0, 3>>} \ DOMAIN vv

(***************************************************************************)
(* Threads and the mutex cs.                                               *)
(***************************************************************************)
\* The threads that call public operations.
Threads == {1, 2}

\* A thread outside every public operation.
NoCall == [op |-> "none", ip |-> NoAddr]

\* RecursiveMutex cs, free; no thread is in a public operation.  owner 0 is no
\* thread; depth counts the LOCK(cs) scopes the owner is in.  snap is what a
\* thread has read of the manager; seq is the manager that the calls made so far
\* leave when each runs alone, in the order of their writes.
ThreadsIdle ==
    [owner |-> 0, depth |-> 0,
     pc |-> [t \in Threads |-> "idle"],
     call |-> [t \in Threads |-> NoCall],
     snap |-> [t \in Threads |-> <<>>],
     seq |-> <<>>]

(***************************************************************************)
(* TxDownloadState                                                         *)
(***************************************************************************)
\* Maximum number of in-flight transactions from a peer
MAX_PEER_TX_IN_FLIGHT == 100

\* TxDownloadState as constructed.
TxDownloadStateEmpty ==
    [m_txs |-> <<>>, m_announced_txs |-> {}, m_requested_txs |-> {},
     m_check_expiry_timer |-> 0]

\* How long to wait (in microseconds) before downloading a transaction from an
\* additional peer
GETDATA_TX_INTERVAL == 60 * 1000000

\* The announcement m_txs holds for a hash gets the timestamp.
SetTimestamp(T, hash, timestamp) ==
    [T EXCEPT !.m_txs = MapPut(T.m_txs, hash, timestamp)]

\* TxDownloadState::AddAnnouncedTx: add to the unrequested index if not known.
AddAnnouncedTx(T, hash, request_time) ==
    IF hash \in DOMAIN T.m_txs THEN T
    ELSE [SetTimestamp(T, hash, request_time) EXCEPT
             !.m_announced_txs = @ \cup {hash}]

\* TxDownloadState::RequeueTx: back to the unrequested index with a deferred
\* timestamp.
RequeueTx(T, hash, request_time) ==
    IF hash \notin DOMAIN T.m_txs THEN T
    ELSE [SetTimestamp(T, hash, request_time) EXCEPT
             !.m_requested_txs = @ \ {hash},
             !.m_announced_txs = @ \cup {hash}]

\* TxDownloadState::RequestSent: to the requested index, with the send time.
RequestSent(T, hash, request_time) ==
    IF hash \notin DOMAIN T.m_txs THEN T
    ELSE [SetTimestamp(T, hash, request_time) EXCEPT
             !.m_announced_txs = @ \ {hash},
             !.m_requested_txs = @ \cup {hash}]

\* TxDownloadState::RemoveTx: drop from all indexes.
RemoveTx(T, hash) ==
    [T EXCEPT !.m_txs = MapErase(T.m_txs, hash),
              !.m_announced_txs = @ \ {hash},
              !.m_requested_txs = @ \ {hash}]

\* TxDownloadState::ExpireOldAnnouncedTxs: [st, expired_requests].  Does nothing
\* before the expiry checkpoint; else moves the requested entries older than
\* the getdata timeout to the list and sets the next checkpoint.
ExpireOldAnnouncedTxs(T, current_time, next_check) ==
    IF current_time < T.m_check_expiry_timer THEN [st |-> T, expired_requests |-> {}]
    ELSE LET old == {hash \in T.m_requested_txs :
                        T.m_txs[hash] < current_time - GETDATA_TX_INTERVAL}
         IN  [st |-> [T EXCEPT !.m_requested_txs = @ \ old,
                               !.m_check_expiry_timer = next_check],
              expired_requests |-> old]

\* AnnouncedTxTimeCompare: first on the request time, then on the txid.
TimeBefore(T, lhs, rhs) ==
    \/ T.m_txs[lhs] < T.m_txs[rhs]
    \/ T.m_txs[lhs] = T.m_txs[rhs] /\ lhs < rhs

\* A faulty cap test that lets one more request through.
AtInFlightCap_OneMore(T) == Cardinality(T.m_requested_txs) > MAX_PEER_TX_IN_FLIGHT

\* The peer has MAX_PEER_TX_IN_FLIGHT requested announcements.
AtInFlightCap(T) == Cardinality(T.m_requested_txs) >= MAX_PEER_TX_IN_FLIGHT

\* TxDownloadState::GetAnnouncedTxToRequest: [st, ret, txid].  Returns the
\* earliest unrequested entry whose time has come and removes it from the
\* unrequested index; returns false at the in-flight cap.
GetAnnouncedTxToRequest(T, current_time) ==
    IF T.m_announced_txs = {} \/ AtInFlightCap(T)
    THEN [st |-> T, ret |-> FALSE, txid |-> 0]
    ELSE LET first == CHOOSE hash \in T.m_announced_txs :
                         \A other \in T.m_announced_txs \ {hash} : TimeBefore(T, hash, other)
         IN  IF T.m_txs[first] > current_time
             THEN [st |-> T, ret |-> FALSE, txid |-> 0]
             ELSE [st |-> [T EXCEPT !.m_announced_txs = @ \ {first}],
                   ret |-> TRUE, txid |-> first]

\* The tracker of one peer as constructed, and the history of its calls:
\* time is the caller's clock; nAnnounced counts the hashes announced; handed
\* holds the hashes handed out and not yet sent, requeued or removed;
\* inFlightAtHandOut is the largest size the requested index had when a hash
\* was handed out; unasked counts the RequestSent calls for a hash that was not
\* handed out and the hand-outs made while another hash was still handed out;
\* others counts the RequeueTx, RemoveTx, ExpireOldAnnouncedTxs and unasked
\* calls.
TrackerEmpty ==
    [peer |-> TxDownloadStateEmpty, time |-> 0, nAnnounced |-> 0, handed |-> {},
     inFlightAtHandOut |-> 0, unasked |-> 0, others |-> 0]

(***************************************************************************)
(* The public operations as actions.  Each takes the mutex for its whole   *)
(* duration, so each is one step.                                          *)
(***************************************************************************)
\* The keys insecure_rand.rand256() is taken to draw; 0 is the deterministic key.
\* AddrA and AddrB share their tried slot and their new slots under key 0 and
\* share none under key 1.
Keys == {0, 1}

\* The inputs of the operations.
Routable == {ip \in Ips : IsRoutable(ip)}
Sources == Routable
Services == {{}, {0}}
AddTimes == {0, now}
Penalties == {0, 30 * 60}
CallTimes == {0, now}

Apply(S) ==
    /\ nIdCount' = S.nIdCount
    /\ mapInfo' = S.mapInfo
    /\ mapAddr' = S.mapAddr
    /\ vRandom' = S.vRandom
    /\ nTried' = S.nTried
    /\ vvTried' = S.vvTried
    /\ nNew' = S.nNew
    /\ vvNew' = S.vvNew
    /\ nLastGood' = S.nLastGood
    /\ m_tried_collisions' = S.m_tried_collisions
    /\ nKey' = S.nKey
    /\ m_asmap' = S.m_asmap
    /\ failed' = S.failed
    /\ now' = now
    /\ nOps' = nOps + 1
    /\ UNCHANGED <<calledSources, attemptRun, localVars>>

Running == ~failed /\ nOps < MaxOps

\* CAddrMan(deterministic = false, consistency_check = false): Clear() on the
\* fields as constructed.  With consistency_check false no public operation runs
\* ConsistencyCheck.
Init ==
    /\ nIdCount = 0
    /\ mapInfo = <<>>
    /\ mapAddr = <<>>
    /\ vRandom = <<>>
    /\ nTried = 0
    /\ vvTried = <<>>
    /\ nNew = 0
    /\ vvNew = <<>>
    /\ nLastGood = 1
    /\ m_tried_collisions = {}
    /\ nKey \in Keys
    /\ m_asmap = <<>>
    /\ failed = FALSE
    /\ now = StartTime
    /\ nOps = 0
    /\ calledSources = {}
    /\ attemptRun = [base |-> 0, times |-> <<>>]
    /\ sel = SelIdle
    /\ threads = [ThreadsIdle EXCEPT !.seq = St]
    /\ tracker = TrackerEmpty

Add ==
    /\ Running
    /\ \E ip \in Ips, source \in Sources, t \in AddTimes, nTimePenalty \in Penalties,
          rnd \in {0, 1} :
          /\ ip \in DOMAIN mapAddr \/ nIdCount < MaxIds
          /\ Apply(Add_(St, [ip |-> ip, port |-> DefaultPort, nTime |-> t,
                             nServices |-> {0}],
                        source, nTimePenalty, now, rnd).st)

Good ==
    /\ Running
    /\ \E ip \in Routable, port \in Ports, test_before_evict \in BOOLEAN, t \in CallTimes :
          Apply(Good_(St, [ip |-> ip, port |-> port], test_before_evict, t))

Attempt ==
    /\ Running
    /\ \E ip \in Routable, port \in Ports, fCountFailure \in BOOLEAN, t \in CallTimes :
          /\ ip \in DOMAIN mapAddr => mapInfo[mapAddr[ip]].nAttempts < MaxAttempts
          /\ Apply(Attempt_(St, [ip |-> ip, port |-> port], fCountFailure, t))

Connected ==
    /\ Running
    /\ \E ip \in Routable, port \in Ports, t \in CallTimes :
          Apply(Connected_(St, [ip |-> ip, port |-> port], t))

SetServices ==
    /\ Running
    /\ \E ip \in Routable, port \in Ports, services \in Services :
          Apply(SetServices_(St, [ip |-> ip, port |-> port], services))

Select ==
    /\ Running
    /\ \E newOnly \in BOOLEAN, fRandBool \in BOOLEAN :
          \E slot \in SelectSlots(St, newOnly, fRandBool) :
              Apply(Select_(St, newOnly, fRandBool, slot).st)

GetAddr ==
    /\ Running
    /\ \E max_addresses \in {0, 1}, max_pct \in {0, 50}, rnds \in GetAddrDraws(Len(vRandom)) :
          Apply(GetAddr_(St, max_addresses, max_pct, now, rnds).st)

ResolveCollisions ==
    /\ Running
    /\ Apply(ResolveCollisions_(St, now))

SelectTriedCollision ==
    /\ Running
    /\ \E rnd \in 0..Max(0, Cardinality(m_tried_collisions) - 1) :
          Apply(SelectTriedCollision_(St, rnd).st)

ClearAll ==
    /\ Running
    /\ \E deterministic \in BOOLEAN, key \in Keys :
          Apply(Clear(St, deterministic, key))

Next ==
    \/ Add
    \/ Good
    \/ Attempt
    \/ Connected
    \/ SetServices
    \/ Select
    \/ GetAddr
    \/ ResolveCollisions
    \/ SelectTriedCollision
    \/ ClearAll

Spec == Init /\ [][Next]_vars

(***************************************************************************)
(* SpecShort: the runs of Spec cut one operation shorter; the properties   *)
(* of single calls are evaluated for every input in every state of it.     *)
(***************************************************************************)
ShortAdd == nOps < MaxShortOps /\ Add
ShortGood == nOps < MaxShortOps /\ Good
ShortAttempt == nOps < MaxShortOps /\ Attempt
ShortConnected == nOps < MaxShortOps /\ Connected
ShortSetServices == nOps < MaxShortOps /\ SetServices
ShortSelect == nOps < MaxShortOps /\ Select
ShortGetAddr == nOps < MaxShortOps /\ GetAddr
ShortResolveCollisions == nOps < MaxShortOps /\ ResolveCollisions
ShortSelectTriedCollision == nOps < MaxShortOps /\ SelectTriedCollision
ShortClearAll == nOps < MaxShortOps /\ ClearAll

NextShort ==
    \/ ShortAdd
    \/ ShortGood
    \/ ShortAttempt
    \/ ShortConnected
    \/ ShortSetServices
    \/ ShortSelect
    \/ ShortGetAddr
    \/ ShortResolveCollisions
    \/ ShortSelectTriedCollision
    \/ ShortClearAll

SpecShort == Init /\ [][NextShort]_vars

(***************************************************************************)
(* SpecLong: runs of any length over a narrow choice of inputs: addresses  *)
(* announce themselves, every time passed is the clock's.                  *)
(***************************************************************************)
ApplyLong(S) ==
    /\ nIdCount' = S.nIdCount
    /\ mapInfo' = S.mapInfo
    /\ mapAddr' = S.mapAddr
    /\ vRandom' = S.vRandom
    /\ nTried' = S.nTried
    /\ vvTried' = S.vvTried
    /\ nNew' = S.nNew
    /\ vvNew' = S.vvNew
    /\ nLastGood' = S.nLastGood
    /\ m_tried_collisions' = S.m_tried_collisions
    /\ nKey' = S.nKey
    /\ m_asmap' = S.m_asmap
    /\ failed' = S.failed
    /\ UNCHANGED <<now, nOps, calledSources, attemptRun, localVars>>

LongAdd ==
    /\ ~failed
    /\ \E ip \in Routable :
          /\ ip \in DOMAIN mapAddr \/ nIdCount < MaxIds
          /\ ApplyLong(Add_(St, [ip |-> ip, port |-> DefaultPort, nTime |-> now,
                                 nServices |-> {0}], ip, 0, now, 0).st)

LongGood ==
    /\ ~failed
    /\ \E ip \in Routable, test_before_evict \in BOOLEAN :
          ApplyLong(Good_(St, [ip |-> ip, port |-> DefaultPort], test_before_evict, now))

LongResolveCollisions ==
    /\ ~failed
    /\ ApplyLong(ResolveCollisions_(St, now))

LongSelectTriedCollision ==
    /\ ~failed
    /\ \E rnd \in 0..Max(0, Cardinality(m_tried_collisions) - 1) :
          ApplyLong(SelectTriedCollision_(St, rnd).st)

LongGetAddr ==
    /\ ~failed
    /\ \E rnds \in GetAddrDraws(Len(vRandom)) :
          ApplyLong(GetAddr_(St, 0, 0, now, rnds).st)

LongClear ==
    /\ ~failed
    /\ \E deterministic \in BOOLEAN, key \in Keys :
          ApplyLong(Clear(St, deterministic, key))

NextLong ==
    \/ LongAdd
    \/ LongGood
    \/ LongResolveCollisions
    \/ LongSelectTriedCollision
    \/ LongGetAddr
    \/ LongClear

SpecLong == Init /\ [][NextLong]_vars

(***************************************************************************)
(* SpecColl: twelve addresses of one group whose tried slot is the same    *)
(* under either key.  They are announced in turn, each by a source of its  *)
(* own group, and reported good with test_before_evict set; the first one  *)
(* is reported first and takes the slot.                                   *)
(***************************************************************************)
CollAddrs ==
    << <<170, 3>>, <<170, 67>>, <<170, 131>>, <<170, 198>>, <<170, 262>>,
       <<170, 326>>, <<170, 390>>, <<170, 457>>, <<170, 521>>, <<170, 585>>,
       <<170, 649>>, <<170, 716>> >>

\* The source that announces the i-th address.
CollSource(i) == <<200 + i, 1>>

CollAdd ==
    /\ ~failed
    /\ \E i \in 1..Len(CollAddrs) :
          /\ CollAddrs[i] \notin DOMAIN mapAddr
          /\ i > 1 => CollAddrs[i - 1] \in DOMAIN mapAddr
          /\ ApplyLong(Add_(St, [ip |-> CollAddrs[i], port |-> DefaultPort,
                                 nTime |-> now, nServices |-> {0}],
                            CollSource(i), 0, now, 0).st)

CollGood ==
    /\ ~failed
    /\ \E i \in 1..Len(CollAddrs) :
          /\ CollAddrs[i] \in DOMAIN mapAddr
          /\ i > 1 => mapInfo[mapAddr[CollAddrs[1]]].fInTried
          /\ ApplyLong(Good_(St, [ip |-> CollAddrs[i], port |-> DefaultPort], TRUE, now))

NextColl ==
    \/ CollAdd
    \/ CollGood

SpecColl == Init /\ [][NextColl]_vars

(***************************************************************************)
(* SpecEvict: three addresses of one group that share a tried slot under   *)
(* either key; announced by the first source they also share a new slot,   *)
(* so a record evicted from the tried table can find its new slot taken.   *)
(* Good is called with test_before_evict clear.                            *)
(***************************************************************************)
EvictAddrs == {<<170, 3>>, <<170, 67>>, <<170, 198>>}
EvictSources == {<<201, 1>>, <<170, 1>>}

EvictAdd ==
    /\ Running
    /\ \E ip \in EvictAddrs, source \in EvictSources :
          Apply(Add_(St, [ip |-> ip, port |-> DefaultPort, nTime |-> now,
                          nServices |-> {0}], source, 0, now, 0).st)

EvictGood ==
    /\ Running
    /\ \E ip \in EvictAddrs :
          Apply(Good_(St, [ip |-> ip, port |-> DefaultPort], FALSE, now))

NextEvict ==
    \/ EvictAdd
    \/ EvictGood

SpecEvict == Init /\ [][NextEvict]_vars

(***************************************************************************)
(* SpecDemote: the three addresses of SpecEvict are announced and reported *)
(* good, with and without test_before_evict, at a time hours ago, and the  *)
(* collisions are resolved.                                                *)
(***************************************************************************)
DemoteAdd ==
    /\ Running
    /\ \E ip \in EvictAddrs, source \in EvictSources :
          Apply(Add_(St, [ip |-> ip, port |-> DefaultPort, nTime |-> now,
                          nServices |-> {0}], source, 0, now, 0).st)

DemoteGood ==
    /\ Running
    /\ \E ip \in EvictAddrs, test_before_evict \in BOOLEAN :
          Apply(Good_(St, [ip |-> ip, port |-> DefaultPort], test_before_evict,
                      now - (ADDRMAN_REPLACEMENT_HOURS + 1) * (60 * 60)))

DemoteResolve ==
    /\ Running
    /\ Apply(ResolveCollisions_(St, now))

NextDemote ==
    \/ DemoteAdd
    \/ DemoteGood
    \/ DemoteResolve

SpecDemote == Init /\ [][NextDemote]_vars

(***************************************************************************)
(* SpecTry: one address is announced, reported good and tried without      *)
(* success.  attemptRun holds the times of the Attempt(AddrA, true, t)     *)
(* calls made since the last Good, and the attempt counter the record had  *)
(* when that run of calls began.                                           *)
(***************************************************************************)
ApplyTry(S, run) ==
    /\ nIdCount' = S.nIdCount
    /\ mapInfo' = S.mapInfo
    /\ mapAddr' = S.mapAddr
    /\ vRandom' = S.vRandom
    /\ nTried' = S.nTried
    /\ vvTried' = S.vvTried
    /\ nNew' = S.nNew
    /\ vvNew' = S.vvNew
    /\ nLastGood' = S.nLastGood
    /\ m_tried_collisions' = S.m_tried_collisions
    /\ failed' = S.failed
    /\ attemptRun' = run
    /\ UNCHANGED <<nKey, m_asmap, now, nOps, calledSources, localVars>>

\* The attempt counter of AddrA, 0 when it has no record.
AttemptsOfA(S) ==
    IF AddrA \in DOMAIN S.mapAddr THEN S.mapInfo[S.mapAddr[AddrA]].nAttempts ELSE 0

TryAdd ==
    /\ ~failed
    /\ AddrA \notin DOMAIN mapAddr
    /\ ApplyTry(Add_(St, [ip |-> AddrA, port |-> DefaultPort, nTime |-> now,
                          nServices |-> {0}], AddrB, 0, now, 0).st,
                attemptRun)

TryGood ==
    /\ ~failed
    /\ \E t \in CallTimes :
          LET S1 == Good_(St, [ip |-> AddrA, port |-> DefaultPort], FALSE, t)
          IN  ApplyTry(S1, [base |-> AttemptsOfA(S1), times |-> <<>>])

TryAttempt ==
    /\ ~failed
    /\ AddrA \in DOMAIN mapAddr
    /\ Len(attemptRun.times) < ADDRMAN_MAX_FAILURES
    /\ \E t \in CallTimes :
          ApplyTry(Attempt_(St, [ip |-> AddrA, port |-> DefaultPort], TRUE, t),
                   [attemptRun EXCEPT !.times = Append(@, t)])

NextTry ==
    \/ TryAdd
    \/ TryGood
    \/ TryAttempt

SpecTry == Init /\ [][NextTry]_vars

(***************************************************************************)
(* SpecClock: the clock advances, and every call is made with the clock's  *)
(* time, so the times passed never decrease.  AddrA is announced and tried *)
(* with and without counting the failure; AddrA and AddrB are reported     *)
(* good.  attemptRun is kept as in SpecTry, for all Attempt calls.         *)
(***************************************************************************)
ClockTick ==
    /\ ~failed
    /\ now < StartTime + MaxTicks
    /\ now' = now + 1
    /\ UNCHANGED <<nIdCount, mapInfo, mapAddr, vRandom, nTried, vvTried, nNew, vvNew,
                   nLastGood, m_tried_collisions, nKey, m_asmap, failed, nOps,
                   calledSources, attemptRun, localVars>>

ClockAdd ==
    /\ ~failed
    /\ AddrA \notin DOMAIN mapAddr
    /\ ApplyTry(Add_(St, [ip |-> AddrA, port |-> DefaultPort, nTime |-> now,
                          nServices |-> {0}], AddrB, 0, now, 0).st,
                attemptRun)

ClockGood ==
    /\ ~failed
    /\ \E ip \in Routable :
          LET S1 == Good_(St, [ip |-> ip, port |-> DefaultPort], FALSE, now)
          IN  ApplyTry(S1, [base |-> AttemptsOfA(S1), times |-> <<>>])

ClockAttempt ==
    /\ ~failed
    /\ AddrA \in DOMAIN mapAddr
    /\ Len(attemptRun.times) <= MaxTicks
    /\ \E fCountFailure \in BOOLEAN :
          ApplyTry(Attempt_(St, [ip |-> AddrA, port |-> DefaultPort], fCountFailure, now),
                   [attemptRun EXCEPT !.times = Append(@, now)])

NextClock ==
    \/ ClockTick
    \/ ClockAdd
    \/ ClockGood
    \/ ClockAttempt

SpecClock == Init /\ [][NextClock]_vars

(***************************************************************************)
(* SpecSelect: two addresses are announced and reported good, and Select   *)
(* runs one step at a time: the draw of a slot, the probing of empty       *)
(* slots, the acceptance test, the return.                                 *)
(***************************************************************************)
managerVars ==
    <<nIdCount, mapInfo, mapAddr, vRandom, nTried, vvTried, nNew, vvNew, nLastGood,
      m_tried_collisions, nKey, m_asmap, failed, now, nOps, calledSources,
      attemptRun, threads, tracker>>

SelAdd ==
    /\ sel.pc = "idle"
    /\ LongAdd

SelGood ==
    /\ sel.pc = "idle"
    /\ ~failed
    /\ \E ip \in Routable :
          ApplyLong(Good_(St, [ip |-> ip, port |-> DefaultPort], FALSE, now))

\* The two early returns and the choice of the table.
SelectBegin ==
    /\ sel.pc = "idle"
    /\ ~failed
    /\ \E newOnly \in BOOLEAN, fRandBool \in BOOLEAN :
          sel' = IF size(St) = 0 \/ (newOnly /\ nNew = 0)
                 THEN [SelIdle EXCEPT !.pc = "done"]
                 ELSE [SelIdle EXCEPT !.pc = "draw",
                                      !.useTried = SelectUsesTried(St, newOnly, fRandBool)]
    /\ UNCHANGED managerVars

\* randrange(bucket count), randrange(ADDRMAN_BUCKET_SIZE)
SelectDraw ==
    /\ sel.pc = "draw"
    /\ \E s \in DOMAIN SelTable \cup EmptySlotSamples(SelTable) :
          sel' = [sel EXCEPT !.pc = "probe", !.slot = s]
    /\ UNCHANGED managerVars

\* One round of the inner while loop that ends at an empty slot again.
SelectAdvanceMiss ==
    /\ sel.pc = "probe"
    /\ sel.slot \notin DOMAIN SelTable
    /\ \E s \in EmptySlotSamples(SelTable) \ {sel.slot} :
          sel' = [sel EXCEPT !.slot = s]
    /\ UNCHANGED managerVars

\* One round of the inner while loop that ends at a filled slot.
SelectAdvanceHit ==
    /\ sel.pc = "probe"
    /\ sel.slot \notin DOMAIN SelTable
    /\ \E s \in DOMAIN SelTable :
          sel' = [sel EXCEPT !.slot = s]
    /\ UNCHANGED managerVars

\* The test succeeds (randbits can draw 0): return info.
SelectAccept ==
    /\ sel.pc = "probe"
    /\ sel.slot \in DOMAIN SelTable
    /\ SelTable[sel.slot] \in DOMAIN mapInfo
    /\ sel' = [sel EXCEPT !.pc = "done", !.ret = mapInfo[SelTable[sel.slot]]]
    /\ UNCHANGED managerVars

\* The test fails: fChanceFactor *= 1.2 and the outer loop starts over.
SelectReject ==
    /\ sel.pc = "probe"
    /\ sel.slot \in DOMAIN SelTable
    /\ SelTable[sel.slot] \in DOMAIN mapInfo
    /\ ~MustAccept(sel.fChanceFactor, GetChance(mapInfo[SelTable[sel.slot]], now))
    /\ sel' = [sel EXCEPT !.pc = "draw", !.fChanceFactor = GrowFactor(@)]
    /\ UNCHANGED managerVars

SelectTest ==
    \/ SelectAccept
    \/ SelectReject

SelectReturn ==
    /\ sel.pc = "done"
    /\ sel' = SelIdle
    /\ UNCHANGED managerVars

NextSelect ==
    \/ SelAdd
    \/ SelGood
    \/ SelectBegin
    \/ SelectDraw
    \/ SelectAdvanceMiss
    \/ SelectAdvanceHit
    \/ SelectAccept
    \/ SelectReject
    \/ SelectReturn

\* The thread in Select_ keeps running, and the random draws are fair: the
\* probing of empty slots does not miss the filled slots for ever.
SpecSelect ==
    /\ Init
    /\ [][NextSelect]_vars
    /\ WF_vars(SelectDraw)
    /\ WF_vars(SelectAdvanceHit)
    /\ WF_vars(SelectTest)

(***************************************************************************)
(* SpecResolve: two addresses that share a tried slot under key 0 are      *)
(* announced, reported good and tried at times hours, minutes or no time   *)
(* ago, and the collisions are resolved.                                   *)
(***************************************************************************)
\* More than ADDRMAN_REPLACEMENT_HOURS ago; less than that but more than 60
\* seconds ago.
HoursAgo == now - (ADDRMAN_REPLACEMENT_HOURS + 1) * (60 * 60)
MinutesAgo == now - 2 * 60

ResolveAdd ==
    /\ ~failed
    /\ \E ip \in Routable :
          /\ ip \in DOMAIN mapAddr \/ nIdCount < MaxIds
          /\ ApplyLong(Add_(St, [ip |-> ip, port |-> DefaultPort, nTime |-> now,
                                 nServices |-> {0}], ip, 0, now, 0).st)

ResolveGood ==
    /\ ~failed
    /\ \E ip \in Routable, test_before_evict \in BOOLEAN, t \in {HoursAgo, now} :
          ApplyLong(Good_(St, [ip |-> ip, port |-> DefaultPort], test_before_evict, t))

ResolveAttempt ==
    /\ ~failed
    /\ \E ip \in DOMAIN mapAddr, t \in {MinutesAgo, now} :
          /\ mapInfo[mapAddr[ip]].nAttempts < MaxAttempts
          /\ ApplyLong(Attempt_(St, [ip |-> ip, port |-> DefaultPort], TRUE, t))

ResolveResolve ==
    /\ ~failed
    /\ ApplyLong(ResolveCollisions_(St, now))

NextResolve ==
    \/ ResolveAdd
    \/ ResolveGood
    \/ ResolveAttempt
    \/ ResolveResolve

SpecResolve == Init /\ [][NextResolve]_vars

(***************************************************************************)
(* SpecSerial: the manager is filled, written to a stream and read back by *)
(* a manager constructed anew, with the same asmap or another one.  Every  *)
(* time passed is the clock's.                                             *)
(***************************************************************************)
\* An asmap that puts the prefixes of AddrA and AddrB in one AS.
OneAS == [prefix \in {AddrA[1], AddrB[1]} |-> 1]

\* The asmaps a manager is started with.
Asmaps == {<<>>, OneAS}

\* CAddrMan(): the manager as constructed, before m_asmap is assigned.
Constructed(asmap, key) ==
    [nIdCount |-> 0, mapInfo |-> <<>>, mapAddr |-> <<>>, vRandom |-> <<>>,
     nTried |-> 0, vvTried |-> <<>>, nNew |-> 0, vvNew |-> <<>>, nLastGood |-> 1,
     m_tried_collisions |-> {}, nKey |-> key, m_asmap |-> asmap, failed |-> FALSE]

\* The streams whose header was damaged after writing.
Damaged(s) ==
    {[s EXCEPT !.format = format, !.nKeySize = nKeySize, !.nNew = nNewIn, !.nTried = nTriedIn] :
        format \in {V3_BIP155, V3_BIP155 + 1},
        nKeySize \in {32, 33},
        nNewIn \in {s.nNew, ADDRMAN_NEW_BUCKET_COUNT * ADDRMAN_BUCKET_SIZE + 1},
        nTriedIn \in {s.nTried, ADDRMAN_TRIED_BUCKET_COUNT * ADDRMAN_BUCKET_SIZE + 1}}
    \ {s}

SerialAdd ==
    /\ ~failed
    /\ \E ip \in Routable, source \in Sources :
          /\ ip \in DOMAIN mapAddr \/ nIdCount < MaxIds
          /\ ApplyLong(Add_(St, [ip |-> ip, port |-> DefaultPort, nTime |-> now,
                                 nServices |-> {0}], source, 30 * 60, now, 0).st)

SerialGood ==
    /\ ~failed
    /\ \E ip \in Routable :
          ApplyLong(Good_(St, [ip |-> ip, port |-> DefaultPort], FALSE, now))

\* Serialize, then Unserialize into a manager constructed with the asmap.
SerialRestart ==
    /\ ~failed
    /\ Serialize(St).ok
    /\ WellFormed(Serialize(St).s)
    /\ \E asmap \in Asmaps, key \in Keys :
          ApplyLong(Unserialize(Constructed(asmap, key), Serialize(St).s, key).st)

\* Unserialize of a damaged stream into a manager constructed anew; the caller
\* catches the failure and goes on with the manager as it was left.
SerialRestartDamaged ==
    /\ ~failed
    /\ Serialize(St).ok
    /\ WellFormed(Serialize(St).s)
    /\ \E s \in Damaged(Serialize(St).s), key \in Keys :
          ApplyLong(Unserialize(Constructed(m_asmap, key), s, key).st)

NextSerial ==
    \/ SerialAdd
    \/ SerialGood
    \/ SerialRestart
    \/ SerialRestartDamaged

SpecSerial == Init /\ [][NextSerial]_vars

(***************************************************************************)
(* SpecThreads: two threads call Add, Good and Select.  A call waits at     *)
(* LOCK(cs), reads the manager, writes what the operation leaves, and      *)
(* releases the mutex when the LOCK scope ends.                            *)
(***************************************************************************)
\* The calls a thread makes.
ThreadCalls ==
    {[op |-> op, ip |-> ip] : op \in {"Add", "Good"}, ip \in Routable}
    \cup {[op |-> "Select", ip |-> NoAddr]}

\* The manager a call leaves when it runs on manager S.
CallResult(call, S) ==
    CASE call.op = "Add" ->
            Add_(S, [ip |-> call.ip, port |-> DefaultPort, nTime |-> now,
                     nServices |-> {0}], call.ip, 0, now, 0).st
      [] call.op = "Good" ->
            Good_(S, [ip |-> call.ip, port |-> DefaultPort], FALSE, now)
      [] OTHER -> S

\* A faulty mutex that lets every thread in.
CanLock_NoMutex(t) == TRUE

\* RecursiveMutex::lock returns for thread t: cs is free or t owns it.
CanLock(t) == threads.owner \in {0, t}

\* The fields of the manager become those of S.
SetManager(S) ==
    /\ nIdCount' = S.nIdCount
    /\ mapInfo' = S.mapInfo
    /\ mapAddr' = S.mapAddr
    /\ vRandom' = S.vRandom
    /\ nTried' = S.nTried
    /\ vvTried' = S.vvTried
    /\ nNew' = S.nNew
    /\ vvNew' = S.vvNew
    /\ nLastGood' = S.nLastGood
    /\ m_tried_collisions' = S.m_tried_collisions
    /\ nKey' = S.nKey
    /\ m_asmap' = S.m_asmap
    /\ failed' = S.failed

\* What a step of a thread that does not write the manager leaves alone.
threadFrame ==
    <<nIdCount, mapInfo, mapAddr, vRandom, nTried, vvTried, nNew, vvNew, nLastGood,
      m_tried_collisions, nKey, m_asmap, failed, now, nOps, calledSources,
      attemptRun, sel, tracker>>

\* A thread calls a public operation and arrives at LOCK(cs).
ThreadCall ==
    /\ ~failed
    /\ \E t \in Threads, call \in ThreadCalls :
          /\ threads.pc[t] = "idle"
          /\ call.op = "Add" => (call.ip \in DOMAIN mapAddr \/ nIdCount < MaxIds)
          /\ threads' = [threads EXCEPT !.pc[t] = "waiting", !.call[t] = call]
    /\ UNCHANGED threadFrame

\* LOCK(cs) of the public operation
ThreadLock ==
    /\ \E t \in Threads :
          /\ threads.pc[t] = "waiting"
          /\ CanLock(t)
          /\ threads' = [threads EXCEPT !.pc[t] = "locked", !.owner = t, !.depth = 1]
    /\ UNCHANGED threadFrame

\* Select_ calls size(), which takes cs again: LOCK(cs) in size()
ThreadSizeLock ==
    /\ \E t \in Threads :
          /\ threads.pc[t] = "locked"
          /\ threads.call[t].op = "Select"
          /\ CanLock(t)
          /\ threads' = [threads EXCEPT !.pc[t] = "size", !.owner = t,
                                        !.depth = threads.depth + 1]
    /\ UNCHANGED threadFrame

\* size() returns
ThreadSizeUnlock ==
    /\ \E t \in Threads :
          /\ threads.pc[t] = "size"
          /\ threads' = [threads EXCEPT !.pc[t] = "sized",
                                        !.depth = threads.depth - 1]
    /\ UNCHANGED threadFrame

\* The operation reads the fields of the manager.
ThreadRead ==
    /\ \E t \in Threads :
          /\ \/ threads.pc[t] = "locked" /\ threads.call[t].op # "Select"
             \/ threads.pc[t] = "sized"
          /\ threads' = [threads EXCEPT !.pc[t] = "read", !.snap[t] = St]
    /\ UNCHANGED threadFrame

\* The operation writes the fields of the manager.
ThreadWrite ==
    /\ \E t \in Threads :
          /\ threads.pc[t] = "read"
          /\ SetManager(CallResult(threads.call[t], threads.snap[t]))
          /\ threads' = [threads EXCEPT
                            !.pc[t] = "written", !.snap[t] = <<>>,
                            !.seq = CallResult(threads.call[t], threads.seq)]
    /\ UNCHANGED <<now, nOps, calledSources, attemptRun, sel, tracker>>

\* The LOCK scope of the public operation ends.
ThreadUnlock ==
    /\ \E t \in Threads :
          /\ threads.pc[t] = "written"
          /\ threads' = [threads EXCEPT
                            !.pc[t] = "idle", !.call[t] = NoCall,
                            !.depth = threads.depth - 1,
                            !.owner = IF threads.depth = 1 THEN 0 ELSE threads.owner]
    /\ UNCHANGED threadFrame

NextThreads ==
    \/ ThreadCall
    \/ ThreadLock
    \/ ThreadSizeLock
    \/ ThreadSizeUnlock
    \/ ThreadRead
    \/ ThreadWrite
    \/ ThreadUnlock

SpecThreads == Init /\ [][NextThreads]_vars

(***************************************************************************)
(* SpecTracker: one peer announces hashes; the caller asks for the next    *)
(* hash to request and sends the request, requeues or removes it, expires  *)
(* old requests, and may also send a request it was not handed.            *)
(***************************************************************************)
\* What a call of the tracker leaves alone.
trackerFrame ==
    <<nIdCount, mapInfo, mapAddr, vRandom, nTried, vvTried, nNew, vvNew, nLastGood,
      m_tried_collisions, nKey, m_asmap, failed, now, nOps, calledSources,
      attemptRun, sel, threads>>

\* The earliest entries of an index: those no other entry is before.
Earliest(T, index) ==
    {hash \in index : \A other \in index \ {hash} : TimeBefore(T, hash, other)}

\* A call out of the request loop can be made: such calls are made while the
\* peer is within MaxOtherCalls requests of the in-flight cap.
NearCap ==
    Cardinality(tracker.peer.m_requested_txs) >= MAX_PEER_TX_IN_FLIGHT - MaxOtherCalls

OffLoop == tracker.others < MaxOtherCalls /\ NearCap

\* The peer sends an INV for a hash not announced before.
TrackerAdd ==
    /\ Cardinality(tracker.peer.m_announced_txs) < MaxPending
    /\ tracker' = [tracker EXCEPT
                      !.peer = AddAnnouncedTx(@, tracker.nAnnounced + 1, tracker.time),
                      !.nAnnounced = @ + 1]
    /\ UNCHANGED trackerFrame

\* The caller asks for the next hash to request and is handed one.
TrackerGet ==
    /\ LET call == GetAnnouncedTxToRequest(tracker.peer, tracker.time)
       IN  /\ call.ret
           /\ tracker.handed # {} => OffLoop
           /\ tracker' = [tracker EXCEPT
                             !.peer = call.st,
                             !.handed = @ \cup {call.txid},
                             !.inFlightAtHandOut =
                                 Max(@, Cardinality(tracker.peer.m_requested_txs)),
                             !.unasked = IF tracker.handed # {} THEN @ + 1 ELSE @,
                             !.others = IF tracker.handed # {} THEN @ + 1 ELSE @]
    /\ UNCHANGED trackerFrame

\* The caller sends the GETDATA for the hash it was handed.
TrackerSend ==
    /\ \E hash \in tracker.handed :
          tracker' = [tracker EXCEPT
                         !.peer = RequestSent(@, hash, tracker.time),
                         !.handed = @ \ {hash}]
    /\ UNCHANGED trackerFrame

\* The caller sends a GETDATA for an announced hash it was not handed.
TrackerSendUnasked ==
    /\ OffLoop
    /\ \E hash \in Earliest(tracker.peer, tracker.peer.m_announced_txs) :
          tracker' = [tracker EXCEPT
                         !.peer = RequestSent(@, hash, tracker.time),
                         !.unasked = @ + 1,
                         !.others = @ + 1]
    /\ UNCHANGED trackerFrame

\* The hash handed out was requested from another peer: ask again later.
TrackerRequeue ==
    /\ OffLoop
    /\ \E hash \in tracker.handed :
          tracker' = [tracker EXCEPT
                         !.peer = RequeueTx(@, hash, tracker.time + GETDATA_TX_INTERVAL),
                         !.handed = @ \ {hash},
                         !.others = @ + 1]
    /\ UNCHANGED trackerFrame

\* A transaction was received: the hash handed out, or the oldest request.
TrackerRemove ==
    /\ OffLoop
    /\ \E hash \in tracker.handed
                   \cup Earliest(tracker.peer, tracker.peer.m_requested_txs) :
          tracker' = [tracker EXCEPT
                         !.peer = RemoveTx(@, hash),
                         !.handed = @ \ {hash},
                         !.others = @ + 1]
    /\ UNCHANGED trackerFrame

\* The caller expires old requests and removes those it is given.
TrackerExpire ==
    /\ OffLoop
    /\ LET call == ExpireOldAnnouncedTxs(tracker.peer, tracker.time,
                                         tracker.time + GETDATA_TX_INTERVAL)
       IN  tracker' = [tracker EXCEPT !.peer = call.st, !.others = @ + 1]
    /\ UNCHANGED trackerFrame

\* Time passes: more than the getdata timeout, once.
TrackerTick ==
    /\ tracker.time = 0
    /\ NearCap
    /\ tracker' = [tracker EXCEPT !.time = GETDATA_TX_INTERVAL + 1]
    /\ UNCHANGED trackerFrame

NextTracker ==
    \/ TrackerAdd
    \/ TrackerGet
    \/ TrackerSend
    \/ TrackerSendUnasked
    \/ TrackerRequeue
    \/ TrackerRemove
    \/ TrackerExpire
    \/ TrackerTick

SpecTracker == Init /\ [][NextTracker]_vars

(***************************************************************************)
(* SpecMult: one address announced by many sources.  Each source calls Add *)
(* for AddrA once, with the clock's time and the penalty of a relayed      *)
(* address; AddrA's own announcement carries no penalty.                   *)
(***************************************************************************)
\* AddrA, AddrB and seven more sources lie in nine different groups and give
\* AddrA nine different new buckets under either key; the last source shares
\* the group of another one.
MultSources ==
    {AddrA, AddrB, <<201, 1>>, <<202, 1>>, <<203, 1>>, <<204, 1>>, <<205, 1>>,
     <<206, 1>>, <<207, 1>>, <<201, 2>>}

\* The source groups Add(AddrA, source) was called from.
CalledGroups == {GetGroup(source, m_asmap) : source \in calledSources}

ApplyMult(S, called) ==
    /\ nIdCount' = S.nIdCount
    /\ mapInfo' = S.mapInfo
    /\ mapAddr' = S.mapAddr
    /\ vRandom' = S.vRandom
    /\ nTried' = S.nTried
    /\ vvTried' = S.vvTried
    /\ nNew' = S.nNew
    /\ vvNew' = S.vvNew
    /\ nLastGood' = S.nLastGood
    /\ m_tried_collisions' = S.m_tried_collisions
    /\ nKey' = S.nKey
    /\ m_asmap' = S.m_asmap
    /\ failed' = S.failed
    /\ calledSources' = called
    /\ UNCHANGED <<attemptRun, localVars>>
    /\ UNCHANGED <<now, nOps>>

MultAdd ==
    /\ ~failed
    /\ \E source \in MultSources \ calledSources, rnd \in {0, 1} :
          ApplyMult(Add_(St, [ip |-> AddrA, port |-> DefaultPort, nTime |-> now,
                              nServices |-> {0}],
                         source, 30 * 60, now, rnd).st,
                    calledSources \cup {source})

MultGood ==
    /\ ~failed
    /\ AddrA \in DOMAIN mapAddr
    /\ ApplyMult(Good_(St, [ip |-> AddrA, port |-> DefaultPort], FALSE, now),
                 calledSources)

NextMult ==
    \/ MultAdd
    \/ MultGood

SpecMult == Init /\ [][NextMult]_vars

(***************************************************************************)
(* Properties.                                                             *)
(***************************************************************************)
\* The new slots and the tried slots holding nId.
NewHolders(nId) == {s \in DOMAIN vvNew : vvNew[s] = nId}
TriedHolders(nId) == {s \in DOMAIN vvTried : vvTried[s] = nId}

\* C1: after any sequence of public operations from an empty manager, the length
\* of the random-order vector equals nNew + nTried.
C1_RandomLength == Len(vRandom) = nNew + nTried

\* C1 witness: one of two created records was deleted again and the other one
\* was moved to the tried table.
C1_Witness ==
    /\ nIdCount = 2
    /\ Cardinality(DOMAIN mapInfo) = 1
    /\ nTried = 1
    /\ Len(vRandom) = 1

\* C2: at every boundary of a public operation, for every time value passed to
\* Good, each record in tried has refcount 0, last-success > 0 and its id in
\* exactly one tried slot.
C2_TriedRecords ==
    \A nId \in DOMAIN mapInfo :
        mapInfo[nId].fInTried =>
            /\ mapInfo[nId].nRefCount = 0
            /\ mapInfo[nId].nLastSuccess > 0
            /\ Cardinality(TriedHolders(nId)) = 1

\* C3: at every boundary of a public operation, each record not in tried has
\* refcount > 0 and its id in exactly refcount new slots, each at the position
\* GetBucketPosition gives for its bucket.
C3_NewRecords ==
    \A nId \in DOMAIN mapInfo :
        ~mapInfo[nId].fInTried =>
            /\ mapInfo[nId].nRefCount > 0
            /\ Cardinality(NewHolders(nId)) = mapInfo[nId].nRefCount
            /\ \A s \in NewHolders(nId) :
                   s[2] = GetBucketPosition(mapInfo[nId], nKey, TRUE, s[1])

\* C4, as claimed: for every id in a new slot (b, p), the new bucket computed from
\* the record's address and the record's stored source is b, and the position is p.
C4_StoredSourceBucket ==
    \A s \in DOMAIN vvNew :
        /\ vvNew[s] \in DOMAIN mapInfo
        /\ LET info == mapInfo[vvNew[s]]
           IN  /\ GetNewBucket(info, nKey, info.source, m_asmap) = s[1]
               /\ GetBucketPosition(info, nKey, TRUE, s[1]) = s[2]

\* C4, amended: for every id in a new slot (b, p), p is the position computed from
\* the record's address and b, and b is the new bucket computed from the record's
\* address and some source, which need not be the stored one.
C4_SomeSourceBucket ==
    \A s \in DOMAIN vvNew :
        /\ vvNew[s] \in DOMAIN mapInfo
        /\ LET info == mapInfo[vvNew[s]]
           IN  /\ \E source \in Sources :
                      GetNewBucket(info, nKey, source, m_asmap) = s[1]
               /\ GetBucketPosition(info, nKey, TRUE, s[1]) = s[2]

\* C4 witness: a record holds two new slots, one of them not its stored source's.
C4_Witness ==
    \E nId \in DOMAIN mapInfo :
        /\ mapInfo[nId].nRefCount = 2
        /\ \E s \in NewHolders(nId) :
               GetNewBucket(mapInfo[nId], nKey, mapInfo[nId].source, m_asmap) # s[1]

\* C5: for every id in a tried slot (b, p), the tried bucket computed from the
\* record's address and the current key is b and the tried position is p.
C5_TriedBucket ==
    \A s \in DOMAIN vvTried :
        /\ vvTried[s] \in DOMAIN mapInfo
        /\ LET info == mapInfo[vvTried[s]]
           IN  /\ GetTriedBucket(info, nKey, m_asmap) = s[1]
               /\ GetBucketPosition(info, nKey, FALSE, s[1]) = s[2]

\* C5 witness: a tried slot is held by a record that evicted another one, which is
\* back in the new table.
C5_Witness ==
    /\ nTried = 1
    /\ \E nId \in DOMAIN mapInfo :
           ~mapInfo[nId].fInTried /\ mapInfo[nId].nLastSuccess > 0
                                  /\ mapInfo[nId].nRefCount = 1

\* C6: the address index and the record map are in one-to-one correspondence.
C6_AddrBijection ==
    /\ \A nId \in DOMAIN mapInfo :
           /\ mapInfo[nId].ip \in DOMAIN mapAddr
           /\ mapAddr[mapInfo[nId].ip] = nId
    /\ \A ip \in DOMAIN mapAddr :
           /\ mapAddr[ip] \in DOMAIN mapInfo
           /\ mapInfo[mapAddr[ip]].ip = ip

\* C7: each record's random-pos is a valid index of the random-order vector, the
\* vector holds the record's id there, and each id is in the vector exactly once.
C7_RandomPos ==
    /\ \A nId \in DOMAIN mapInfo :
           /\ mapInfo[nId].nRandomPos >= 0
           /\ mapInfo[nId].nRandomPos < Len(vRandom)
           /\ vRandom[mapInfo[nId].nRandomPos + 1] = nId
    /\ \A i, j \in 1..Len(vRandom) : vRandom[i] = vRandom[j] => i = j

\* C8: size() equals the number of addresses Add created and that were not
\* deleted since, which is the number of entries of the record map.
C8_Size ==
    /\ size(St) = Cardinality(DOMAIN mapAddr)
    /\ size(St) = Cardinality(DOMAIN mapInfo)

\* The record of AddrA.
InfoA == mapInfo[mapAddr[AddrA]]

\* The Add calls the claims on the reference count range over.
AddCalls ==
    [ip : {AddrA}, port : {DefaultPort}, nTime : {0, now, now + 1}, nServices : Services]

\* C9: every record's refcount is within 0..8, and Add for a record whose refcount
\* is already 8 returns false and changes no slot and no refcount.
C9_MaxRefCount ==
    /\ \A nId \in DOMAIN mapInfo :
           mapInfo[nId].nRefCount \in 0..ADDRMAN_NEW_BUCKETS_PER_ADDRESS
    /\ \A addr \in AddCalls, source \in MultSources, nTimePenalty \in Penalties,
          rnd \in {0, 1} :
           (AddrA \in DOMAIN mapAddr
            /\ InfoA.nRefCount = ADDRMAN_NEW_BUCKETS_PER_ADDRESS) =>
               LET r == Add_(St, addr, source, nTimePenalty, now, rnd)
               IN  /\ r.ret = FALSE
                   /\ r.st.vvNew = vvNew
                   /\ r.st.vvTried = vvTried
                   /\ DOMAIN r.st.mapInfo = DOMAIN mapInfo
                   /\ \A nId \in DOMAIN mapInfo :
                          r.st.mapInfo[nId].nRefCount = mapInfo[nId].nRefCount

\* C9 witness: AddrA holds 8 new slots and a source that has not called yet is left.
C9_Witness ==
    /\ AddrA \in DOMAIN mapAddr
    /\ InfoA.nRefCount = ADDRMAN_NEW_BUCKETS_PER_ADDRESS
    /\ Cardinality(NewHolders(mapAddr[AddrA])) = ADDRMAN_NEW_BUCKETS_PER_ADDRESS
    /\ \E source \in MultSources \ calledSources :
           GetGroup(source, m_asmap) \notin CalledGroups

\* Add(AddrA, source) was called once from each of 8 sources of 8 different
\* groups, and nothing else was called.
EightSourcesCalled ==
    /\ Cardinality(calledSources) = 8
    /\ Cardinality(CalledGroups) = 8
    /\ nTried = 0

\* C10, as claimed: after Add(A, source_i) was called once from each of 8 sources
\* of 8 different source groups, record A has refcount exactly 8.
C10_EightCallsGiveEight ==
    EightSourcesCalled =>
        AddrA \in DOMAIN mapAddr /\ InfoA.nRefCount = ADDRMAN_NEW_BUCKETS_PER_ADDRESS

\* C10, amended: while A is in the new table and Add(A, source_i) was called once
\* from each of some sources, A's refcount is at least 1 and at most the smaller of
\* 8 and the number of different source groups that called; 8 calls from 8 groups
\* can give 8 but need not.
C10_RefCountUpToGroups ==
    (calledSources # {} /\ nTried = 0) =>
        /\ AddrA \in DOMAIN mapAddr
        /\ InfoA.nRefCount >= 1
        /\ InfoA.nRefCount <= Min(ADDRMAN_NEW_BUCKETS_PER_ADDRESS,
                                  Cardinality(CalledGroups))

\* C10 witness: 8 sources of 8 groups have called and A's refcount is 8.
C10_Witness ==
    /\ EightSourcesCalled
    /\ AddrA \in DOMAIN mapAddr
    /\ InfoA.nRefCount = ADDRMAN_NEW_BUCKETS_PER_ADDRESS

\* The Add calls the claims on single operations range over.
AnyAddCalls == [ip : Ips, port : Ports, nTime : AddTimes, nServices : {{0}}]

\* C11: Add(addr, source, penalty) returns true exactly when addr is routable and
\* no record for addr existed before the call; in every other case it returns false.
C11_AddReturnsCreated ==
    \A addr \in AnyAddCalls, source \in Sources, rnd \in {0, 1} :
        Add_(St, addr, source, 30 * 60, now, rnd).ret
            = (IsRoutable(addr.ip) /\ addr.ip \notin DOMAIN mapAddr)

\* C11 witness: AddrA has a record, and an Add that created a second record has
\* returned although that record is gone again.
C11_Witness ==
    /\ nIdCount = 2
    /\ DOMAIN mapAddr = {AddrA}
    /\ nNew = 1

\* C12: for a record A present in the new table, Good(A with the stored port,
\* test_before_evict = false, T) ends with A in the tried table at the slot given
\* by its tried bucket and position, with refcount 0 and no new slot holding its
\* id; a later Select(false) can still return A.
C12_GoodPromotes ==
    \A ip \in Routable, t \in CallTimes :
        (/\ ip \in DOMAIN mapAddr
         /\ ~mapInfo[mapAddr[ip]].fInTried
         /\ NewHolders(mapAddr[ip]) # {}) =>
            LET nId == mapAddr[ip]
                S1 == Good_(St, [ip |-> ip, port |-> mapInfo[nId].port], FALSE, t)
                nKBucket == GetTriedBucket(mapInfo[nId], nKey, m_asmap)
                nKBucketPos == GetBucketPosition(mapInfo[nId], nKey, FALSE, nKBucket)
            IN  /\ ~S1.failed
                /\ nId \in DOMAIN S1.mapInfo
                /\ S1.mapInfo[nId].fInTried
                /\ S1.mapInfo[nId].nRefCount = 0
                /\ Slot(S1.vvTried, nKBucket, nKBucketPos) = nId
                /\ \A s \in DOMAIN S1.vvNew : S1.vvNew[s] # nId
                /\ \E fRandBool \in BOOLEAN :
                       \E slot \in SelectSlots(S1, FALSE, fRandBool) :
                           Select_(S1, FALSE, fRandBool, slot).ret = S1.mapInfo[nId]

\* C12 witness: one record was moved to tried by a Good call with the clock's time
\* while another record, never reported good, is in the new table.
C12_Witness ==
    /\ nTried = 1
    /\ nNew = 1
    /\ \E nId \in DOMAIN mapInfo :
           mapInfo[nId].fInTried /\ mapInfo[nId].nLastSuccess = now
    /\ \E nId \in DOMAIN mapInfo :
           ~mapInfo[nId].fInTried /\ mapInfo[nId].nLastSuccess = 0

\* The CService values the claims on single operations range over.
AnyServices == [ip : Ips, port : Ports]

\* addr has no record, or its port differs from the stored record's port.
NoRecordFor(addr) ==
    \/ addr.ip \notin DOMAIN mapAddr
    \/ mapInfo[mapAddr[addr.ip]].port # addr.port

\* C13, as claimed: Good called with an address that has no record, or whose port
\* differs from the stored record's port, is a no-op: records, both tables,
\* counters, the collision set and the last-good time are all unchanged.
C13_GoodNoOp ==
    \A addr \in AnyServices, test_before_evict \in BOOLEAN, t \in CallTimes :
        NoRecordFor(addr) => Good_(St, addr, test_before_evict, t) = St

\* C13, amended: such a call changes the last-good time to the time passed and
\* nothing else: records, both tables, counters and the collision set are unchanged.
C13_GoodOnlySetsLastGood ==
    \A addr \in AnyServices, test_before_evict \in BOOLEAN, t \in CallTimes :
        NoRecordFor(addr) =>
            Good_(St, addr, test_before_evict, t) = [St EXCEPT !.nLastGood = t]

\* C13 witness: a Good call that matched no record has set the last-good time: it
\* is the clock's time, and no record has a try or a success on it.
C13_Witness ==
    /\ nLastGood = now
    /\ mapInfo # <<>>
    /\ \A nId \in DOMAIN mapInfo :
           mapInfo[nId].nLastSuccess = 0 /\ mapInfo[nId].nLastTry = 0

\* C14: Attempt, Connected and SetServices called with an address that has no
\* record, or whose port differs from the stored record's port, leave the entire
\* manager state unchanged.
C14_NoRecordNoChange ==
    \A addr \in AnyServices :
        NoRecordFor(addr) =>
            /\ \A fCountFailure \in BOOLEAN, t \in CallTimes :
                   Attempt_(St, addr, fCountFailure, t) = St
            /\ \A t \in CallTimes : Connected_(St, addr, t) = St
            /\ \A services \in Services : SetServices_(St, addr, services) = St

\* C14 witness: after two operations or more the only record is as Add created
\* it, so that calls with its address and another port, or with the address that
\* has no record, are possible.
C14_Witness ==
    /\ nOps >= 2
    /\ DOMAIN mapAddr = {AddrB}
    /\ LET info == mapInfo[mapAddr[AddrB]]
       IN  /\ info.nLastTry = 0
           /\ info.nAttempts = 0
           /\ info.nServices = {0}
           /\ info.nTime = now

\* C15: Good never changes the advertised time (nTime) of any record, whether the
\* record is promoted, deferred into the collision set, or already in tried.
C15_GoodKeepsTime ==
    \A addr \in AnyServices, test_before_evict \in BOOLEAN, t \in CallTimes :
        LET S1 == Good_(St, addr, test_before_evict, t)
        IN  \A nId \in DOMAIN mapInfo \cap DOMAIN S1.mapInfo :
                S1.mapInfo[nId].nTime = mapInfo[nId].nTime

\* C15 witness: a record was reported good at the clock's time and is in tried,
\* and its advertised time is another one.
C15_Witness ==
    \E nId \in DOMAIN mapInfo :
        /\ mapInfo[nId].fInTried
        /\ mapInfo[nId].nLastSuccess = now
        /\ mapInfo[nId].nTime # now

\* C16: the collision set never holds more than 10 ids; when it already holds 10,
\* Good(..., test_before_evict = true) on a colliding candidate leaves the set
\* unchanged.
C16_CollisionSetBound ==
    /\ Cardinality(m_tried_collisions) <= ADDRMAN_SET_TRIED_COLLISION_SIZE
    /\ Cardinality(m_tried_collisions) = ADDRMAN_SET_TRIED_COLLISION_SIZE =>
           \A ip \in DOMAIN mapAddr, port \in Ports, t \in CallTimes :
               Good_(St, [ip |-> ip, port |-> port], TRUE, t).m_tried_collisions
                   = m_tried_collisions

\* C16 witness: the set holds 10 ids, and a further candidate whose tried slot is
\* taken was reported good and is not in the set.
C16_Witness ==
    /\ Cardinality(m_tried_collisions) = ADDRMAN_SET_TRIED_COLLISION_SIZE
    /\ \E nId \in DOMAIN mapInfo \ m_tried_collisions :
           /\ ~mapInfo[nId].fInTried
           /\ mapInfo[nId].nLastSuccess = now
           /\ Slot(vvTried, GetTriedBucket(mapInfo[nId], nKey, m_asmap),
                   GetBucketPosition(mapInfo[nId], nKey, FALSE,
                                     GetTriedBucket(mapInfo[nId], nKey, m_asmap))) # -1

\* The tried slot of a record.
TriedSlotOf(info) ==
    LET nKBucket == GetTriedBucket(info, nKey, m_asmap)
    IN  <<nKBucket, GetBucketPosition(info, nKey, FALSE, nKBucket)>>

\* The new slot a record gets from its address and stored source.
SourceSlotOf(info) ==
    LET nUBucket == GetNewBucket(info, nKey, info.source, m_asmap)
    IN  <<nUBucket, GetBucketPosition(info, nKey, TRUE, nUBucket)>>

\* C17: Good(B, false, T) on a new-table record B whose tried slot is held by A
\* leaves B holding that slot, A out of the tried table and held by exactly one
\* new slot, the one of A's address and stored source, with reference count 1;
\* the tried count is unchanged.
C17_GoodEvicts ==
    \A ip \in DOMAIN mapAddr, t \in CallTimes :
        LET nId == mapAddr[ip]
            info == mapInfo[nId]
            nIdEvict == Slot(vvTried, TriedSlotOf(info)[1], TriedSlotOf(info)[2])
            S1 == Good_(St, [ip |-> ip, port |-> info.port], FALSE, t)
        IN  (~failed /\ ~info.fInTried /\ nIdEvict # -1) =>
                /\ ~S1.failed
                /\ {s \in DOMAIN S1.vvTried : S1.vvTried[s] = nId} = {TriedSlotOf(info)}
                /\ S1.mapInfo[nId].fInTried
                /\ nIdEvict \in DOMAIN S1.mapInfo
                /\ ~S1.mapInfo[nIdEvict].fInTried
                /\ {s \in DOMAIN S1.vvTried : S1.vvTried[s] = nIdEvict} = {}
                /\ {s \in DOMAIN S1.vvNew : S1.vvNew[s] = nIdEvict}
                       = {SourceSlotOf(mapInfo[nIdEvict])}
                /\ S1.mapInfo[nIdEvict].nRefCount = 1
                /\ S1.nTried = nTried

\* C17 witness: a record evicted from the tried table is back in the new table in
\* a slot that another record held, which is gone.
C17_Witness ==
    /\ nTried = 1
    /\ nIdCount = 3
    /\ Cardinality(DOMAIN mapInfo) = 2
    /\ \E nId \in DOMAIN mapInfo :
           /\ ~mapInfo[nId].fInTried
           /\ mapInfo[nId].nLastSuccess = now
           /\ NewHolders(nId) = {SourceSlotOf(mapInfo[nId])}

\* AddrA has a record and ADDRMAN_MAX_FAILURES Attempt(AddrA, true, t) calls were
\* made since the last Good.
TenAttempts ==
    AddrA \in DOMAIN mapAddr /\ Len(attemptRun.times) = ADDRMAN_MAX_FAILURES

\* Times at which the advertised time of a record is 7 to 30 days old.
AgedTimes(info) ==
    {info.nTime + ADDRMAN_MIN_FAIL_DAYS * 24 * 60 * 60,
     info.nTime + (ADDRMAN_MIN_FAIL_DAYS + 1) * 24 * 60 * 60,
     info.nTime + ADDRMAN_HORIZON_DAYS * 24 * 60 * 60}

\* C18 as stated: after 10 consecutive Attempt(A, true, _) calls with no
\* intervening Good, A is terrible once its advertised time is 7 or more days old.
C18_TenAttemptsTerrible ==
    TenAttempts => \A nNow \in AgedTimes(InfoA) : IsTerrible(InfoA, nNow)

\* C18 amended: after 10 consecutive Attempt(A, true, t) calls with no intervening
\* Good, each t not before the last Good time, A's attempt counter is at most one
\* above its value before the calls; while A's advertised time is 7 to 30 days
\* old and its last try more than 60 seconds old, A is terrible exactly when the
\* counter is at least 3 with no recorded success, or at least 10 with the last
\* success more than 7 days old.
C18_TenAttemptsCountOnce ==
    TenAttempts =>
        /\ (\A i \in 1..Len(attemptRun.times) : attemptRun.times[i] >= nLastGood)
               => InfoA.nAttempts <= attemptRun.base + 1
        /\ \A nNow \in AgedTimes(InfoA) :
               InfoA.nLastTry < nNow - 60 =>
                   (IsTerrible(InfoA, nNow) <=>
                        \/ InfoA.nLastSuccess = 0 /\ InfoA.nAttempts >= ADDRMAN_RETRIES
                        \/ /\ nNow - InfoA.nLastSuccess > ADDRMAN_MIN_FAIL_DAYS * 24 * 60 * 60
                           /\ InfoA.nAttempts >= ADDRMAN_MAX_FAILURES)

\* C18 witness: ten failed tries at the current time were reported for a record
\* never reported good; one of them was counted, and the record is not terrible a
\* week later.
C18_Witness ==
    /\ TenAttempts
    /\ \A i \in 1..Len(attemptRun.times) : attemptRun.times[i] = now
    /\ InfoA.nLastSuccess = 0
    /\ InfoA.nAttempts = 1
    /\ InfoA.nLastTry = now
    /\ ~IsTerrible(InfoA, InfoA.nTime + ADDRMAN_MIN_FAIL_DAYS * 24 * 60 * 60)

\* C19: Select(new_only) returns the empty record exactly when the store is empty,
\* or new_only is set and the new table is empty; in every other state it returns
\* a non-empty record.
C19_SelectEmpty ==
    ~failed =>
        \A newOnly \in BOOLEAN, fRandBool \in BOOLEAN :
            /\ SelectSlots(St, newOnly, fRandBool) # {}
            /\ \A slot \in SelectSlots(St, newOnly, fRandBool) :
                   LET r == Select_(St, newOnly, fRandBool, slot)
                   IN  /\ ~r.st.failed
                       /\ r.ret = EmptyInfo <=> (size(St) = 0 \/ (newOnly /\ nNew = 0))
                       /\ r.ret # EmptyInfo => IsValid(r.ret.ip)

\* C19 witness: Select was called on a store whose only record is in the tried
\* table.
C19_Witness ==
    /\ nOps >= 3
    /\ nTried = 1
    /\ nNew = 0
    /\ \E nId \in DOMAIN mapInfo : mapInfo[nId].fInTried /\ mapInfo[nId].nLastTry = now
    /\ Select_(St, TRUE, FALSE, <<0, 0>>).ret = EmptyInfo
    /\ \E slot \in DOMAIN vvTried : Select_(St, FALSE, TRUE, slot).ret # EmptyInfo

\* C20: every non-empty record returned by Select is a record currently in the
\* store; with new_only = true it is never a record in tried, and when the tried
\* table is empty it is a record of the new table.
C20_SelectFromStore ==
    ~failed =>
        \A newOnly \in BOOLEAN, fRandBool \in BOOLEAN :
            \A slot \in SelectSlots(St, newOnly, fRandBool) :
                LET ret == Select_(St, newOnly, fRandBool, slot).ret
                IN  ret # EmptyInfo =>
                        /\ ret.ip \in DOMAIN mapAddr
                        /\ mapAddr[ret.ip] \in DOMAIN mapInfo
                        /\ mapInfo[mapAddr[ret.ip]] = ret
                        /\ newOnly => ~ret.fInTried
                        /\ nTried = 0 =>
                               /\ ~ret.fInTried
                               /\ NewHolders(mapAddr[ret.ip]) # {}

\* C20 witness: Select was called on a store with a record in each table.
C20_Witness ==
    /\ nOps >= 4
    /\ nTried = 1
    /\ nNew = 1
    /\ \E slot \in DOMAIN vvTried : Select_(St, FALSE, FALSE, slot).ret.fInTried
    /\ \E slot \in DOMAIN vvNew : ~Select_(St, TRUE, FALSE, slot).ret.fInTried

\* C21: Select called on a store whose chosen table is non-empty eventually
\* returns under fair random draws: the probing reaches a filled slot, and the
\* rejection loop accepts because the chance factor grows on every rejection.
C21_SelectReturns ==
    (sel.pc \in {"draw", "probe"} /\ DOMAIN SelTable # {}) ~> (sel.pc = "done")

\* C21 witness: Select returned a record after rejections, at a factor that left
\* the test no way to fail.
C21_Witness ==
    /\ sel.pc = "done"
    /\ sel.ret # EmptyInfo
    /\ sel.fChanceFactor > FactorOne
    /\ MustAccept(sel.fChanceFactor, GetChance(sel.ret, now))

\* The GetAddr calls the claim ranges over.
GetAddrMax == {0, 1, 2}
GetAddrPct == {0, 50, 100}

\* C22 as stated: GetAddr(max_addresses, max_pct) returns at most
\* min(max_addresses, max_pct% of the random-order vector's length) addresses.
C22_GetAddrAtMostMin ==
    \A max_addresses \in GetAddrMax, max_pct \in GetAddrPct,
       rnds \in GetAddrDraws(Len(vRandom)) :
        Len(GetAddr_(St, max_addresses, max_pct, now, rnds).ret)
            <= Min(max_addresses, (max_pct * Len(vRandom)) \div 100)

\* C22 amended: GetAddr returns at most n addresses, where n is the length of the
\* random-order vector, replaced by max_pct% of it when max_pct is not 0, and then
\* capped by max_addresses when max_addresses is not 0.
C22_GetAddrAtMostLimit ==
    \A max_addresses \in GetAddrMax, max_pct \in GetAddrPct,
       rnds \in GetAddrDraws(Len(vRandom)) :
        LET nAll == Len(vRandom)
            nPct == (max_pct * nAll) \div 100
            nRet == Len(GetAddr_(St, max_addresses, max_pct, now, rnds).ret)
        IN  /\ nRet <= nAll
            /\ max_pct # 0 => nRet <= nPct
            /\ max_addresses # 0 => nRet <= max_addresses

\* C22 witness: GetAddr has shuffled a vector of two records that are not
\* terrible, of which GetAddr(1, 100) returns one and GetAddr(0, 0) both.
C22_Witness ==
    /\ nIdCount = 2
    /\ vRandom = <<1, 0>>
    /\ \A nId \in DOMAIN mapInfo : ~IsTerrible(mapInfo[nId], now)
    /\ \E rnds \in GetAddrDraws(2) :
           /\ Len(GetAddr_(St, 1, 100, now, rnds).ret) = 1
           /\ Len(GetAddr_(St, 0, 0, now, rnds).ret) = 2

\* The record that holds the tried slot of record nId, -1 when the slot is empty.
OccupantOf(nId) ==
    Slot(vvTried, TriedSlotOf(mapInfo[nId])[1], TriedSlotOf(mapInfo[nId])[2])

\* Record id_new waits in the collision set for the tried slot that another
\* record, id_old, holds.
Collides(id_new, id_old) ==
    /\ id_new \in m_tried_collisions
    /\ id_new \in DOMAIN mapInfo
    /\ ~mapInfo[id_new].fInTried
    /\ id_old = OccupantOf(id_new)
    /\ id_old \in DOMAIN mapInfo
    /\ id_old # id_new

\* The occupant's last success is within the last 4 hours.
RecentSuccess(id_old) ==
    now - mapInfo[id_old].nLastSuccess < ADDRMAN_REPLACEMENT_HOURS * (60 * 60)

FailedRecently(id_old) ==
    /\ ~RecentSuccess(id_old)
    /\ now - mapInfo[id_old].nLastTry < ADDRMAN_REPLACEMENT_HOURS * (60 * 60)
    /\ now - mapInfo[id_old].nLastTry > 60

\* C24: if B is in the collision set against occupant A, A's last success is more
\* than 4 hours old and A's last (failed) attempt is within 4 hours but more than
\* 60 seconds old, then ResolveCollisions demotes A to new, promotes B to tried in
\* A's slot, and leaves the collision set without B.
C24_FailedOccupantReplaced ==
    \A B, A \in DOMAIN mapInfo :
        (~failed /\ Collides(B, A) /\ FailedRecently(A)) =>
            LET S1 == ResolveCollisions_(St, now)
            IN  /\ ~S1.failed
                /\ A \in DOMAIN S1.mapInfo
                /\ ~S1.mapInfo[A].fInTried
                /\ {s \in DOMAIN S1.vvNew : S1.vvNew[s] = A} # {}
                /\ S1.mapInfo[B].fInTried
                /\ Slot(S1.vvTried, TriedSlotOf(mapInfo[A])[1], TriedSlotOf(mapInfo[A])[2]) = B
                /\ B \notin S1.m_tried_collisions

\* What a manager holds: for each record its address, its table and the slots
\* of that table that hold its id.
StoreView(S) ==
    {[ip |-> S.mapInfo[n].ip, port |-> S.mapInfo[n].port,
      fInTried |-> S.mapInfo[n].fInTried,
      slots |-> IF S.mapInfo[n].fInTried
                THEN {slot \in DOMAIN S.vvTried : S.vvTried[slot] = n}
                ELSE {slot \in DOMAIN S.vvNew : S.vvNew[slot] = n}] :
        n \in DOMAIN S.mapInfo}

\* The manager can be written: the asserts of Serialize pass and the counts of
\* the header are the numbers of records written.
CanSerialize == Serialize(St).ok /\ WellFormed(Serialize(St).s)

\* Unserialize(Serialize(S)) into a manager constructed with the asmap.
RoundTrip(asmap) == Unserialize(Constructed(asmap, nKey), Serialize(St).s, nKey)

\* C25: a manager read back under the same key and asmap holds the same
\* addresses, each in the same table and in the same set of slots, records
\* with more than one reference included.
C25_RoundTripSame ==
    (~failed /\ CanSerialize) =>
        /\ ~RoundTrip(m_asmap).threw
        /\ StoreView(RoundTrip(m_asmap).st) = StoreView(St)

\* The addresses a manager holds.
Addresses(S) == {S.mapInfo[n].ip : n \in DOMAIN S.mapInfo}

\* The record read back is without a slot: its tried slot, or the new slot
\* computed from its source, is held by another record in the manager read.
SlotTaken(S, info) ==
    IF info.fInTried
    THEN LET nKBucket == GetTriedBucket(info, S.nKey, S.m_asmap)
             nId == Slot(S.vvTried, nKBucket, GetBucketPosition(info, S.nKey, FALSE, nKBucket))
         IN  nId \in DOMAIN S.mapInfo /\ S.mapInfo[nId].ip # info.ip /\ S.mapInfo[nId].fInTried
    ELSE LET nUBucket == GetNewBucket(info, S.nKey, info.source, S.m_asmap)
             nId == Slot(S.vvNew, nUBucket, GetBucketPosition(info, S.nKey, TRUE, nUBucket))
         IN  nId \in DOMAIN S.mapInfo /\ S.mapInfo[nId].ip # info.ip /\ ~S.mapInfo[nId].fInTried

EmptyStore(S) ==
    /\ S.mapInfo = <<>>
    /\ S.mapAddr = <<>>
    /\ S.vRandom = <<>>
    /\ S.vvNew = <<>>
    /\ S.vvTried = <<>>
    /\ S.nNew = 0
    /\ S.nTried = 0

\* C27: Unserialize of a stream whose format is above 3, whose key size is not
\* 32, or whose count of new or tried records is above the capacity of the
\* table reports the failure and leaves an empty store that passes the
\* consistency check.
C27_FailureLeavesEmpty ==
    (~failed /\ CanSerialize) =>
        \A s \in Damaged(Serialize(St).s), key \in Keys :
            LET read == Unserialize(Constructed(m_asmap, key), s, key)
            IN  /\ read.threw
                /\ EmptyStore(read.st)
                /\ ConsistencyCheck(read.st)

\* C29: when the collision set is not empty and the id picked from it has a
\* record, SelectTriedCollision returns the record that occupies the tried
\* slot of the candidate, a record of the tried table; when the id has no
\* record, it erases the id from the set and returns the empty record.
C29_ReturnsOccupant ==
    ~failed =>
        \A rnd \in 0..(Cardinality(m_tried_collisions) - 1) :
            LET id_new == SortedIds(m_tried_collisions)[rnd + 1]
                call == SelectTriedCollision_(St, rnd)
            IN  IF id_new \in DOMAIN mapInfo
                THEN /\ OccupantOf(id_new) \in DOMAIN mapInfo
                     /\ mapInfo[OccupantOf(id_new)].fInTried
                     /\ call.ret = mapInfo[OccupantOf(id_new)]
                ELSE /\ call.ret = EmptyInfo
                     /\ call.st.m_tried_collisions = m_tried_collisions \ {id_new}

\* A thread in a public operation, past LOCK(cs).
InOperation(t) == threads.pc[t] \in {"locked", "size", "sized", "read", "written"}

\* C28: a thread that reads or writes the manager holds the mutex from the
\* start of its operation to the end, so what it has read is what the manager
\* holds when it writes, and the manager is always one that the calls made so
\* far leave when they run one after the other.
C28_Sequential ==
    /\ \A t \in Threads :
          /\ InOperation(t) => threads.owner = t /\ threads.depth >= 1
          /\ threads.pc[t] = "read" => threads.snap[t] = St
    /\ St = threads.seq

\* A thread is between its read and its write while the other waits at LOCK(cs)
\* with a call that would change the manager, and an earlier call has written.
C28_Witness ==
    /\ threads.pc[1] = "read"
    /\ threads.call[1].op = "Good"
    /\ threads.pc[2] = "waiting"
    /\ threads.call[2].op = "Add"
    /\ threads.call[2].ip \notin DOMAIN mapAddr
    /\ nIdCount = 1
    /\ CallResult(threads.call[1], St) # St

\* C30 as stated: the requested index of a peer never holds more than
\* MAX_PEER_TX_IN_FLIGHT entries, whatever the calls.
C30_RequestedAtMostCap ==
    Cardinality(tracker.peer.m_requested_txs) <= MAX_PEER_TX_IN_FLIGHT

\* C30 amended: GetAnnouncedTxToRequest hands out no hash while the peer has
\* MAX_PEER_TX_IN_FLIGHT requested announcements, and the requested index
\* holds at most that many entries as long as RequestSent is called for
\* handed-out hashes only and each before the next hash is asked for.
C30_HandOutBelowCap ==
    /\ tracker.inFlightAtHandOut < MAX_PEER_TX_IN_FLIGHT
    /\ tracker.unasked = 0 =>
          Cardinality(tracker.peer.m_requested_txs) <= MAX_PEER_TX_IN_FLIGHT

\* The peer has 100 requests in flight, a further announcement is due, and
\* the last hand-out was made at 99.
C30_Witness ==
    /\ Cardinality(tracker.peer.m_requested_txs) = MAX_PEER_TX_IN_FLIGHT
    /\ tracker.inFlightAtHandOut = MAX_PEER_TX_IN_FLIGHT - 1
    /\ tracker.unasked = 0
    /\ tracker.handed = {}
    /\ tracker.peer.m_announced_txs # {}
    /\ ~GetAnnouncedTxToRequest(tracker.peer, tracker.time).ret

\* The reference count of the record of ip, 0 when ip has no record.
RefCountOf(ip) ==
    IF ip \in DOMAIN mapAddr /\ mapAddr[ip] \in DOMAIN mapInfo
    THEN mapInfo[mapAddr[ip]].nRefCount ELSE 0

\* The Add calls of routable addresses at the default port.
RoutableAddCalls == [ip : Routable, port : {DefaultPort}, nTime : AddTimes, nServices : {{0}}]

\* The new slots whose occupant the call that leaves state S1 has taken out.
Displaced(S1) == {s \in DOMAIN vvNew : Slot(S1.vvNew, s[1], s[2]) # vvNew[s]}

\* C31: an Add call takes the occupant of a new slot out only if the occupant is
\* terrible, or the occupant has refcount > 1 and the candidate has refcount 0; a
\* non-terrible occupant with refcount 1 keeps its slot and its record.  The draw
\* of the call is the one that passes the stochastic test.
C31_AddKeepsGoodOccupant ==
    \A addr \in RoutableAddCalls, source \in Sources, nTimePenalty \in Penalties :
        ~failed =>
            LET S1 == Add_(St, addr, source, nTimePenalty, now, 0).st
            IN  \A s \in DOMAIN vvNew :
                    LET occupant == IF vvNew[s] \in DOMAIN mapInfo
                                    THEN mapInfo[vvNew[s]] ELSE EmptyInfo
                    IN  /\ s \in Displaced(S1) =>
                               \/ IsTerrible(occupant, now)
                               \/ (occupant.nRefCount > 1 /\ RefCountOf(addr.ip) = 0)
                        /\ (~IsTerrible(occupant, now) /\ occupant.nRefCount = 1) =>
                               /\ Slot(S1.vvNew, s[1], s[2]) = vvNew[s]
                               /\ vvNew[s] \in DOMAIN S1.mapInfo
                               /\ S1.mapInfo[vvNew[s]].nRefCount >= 1

\* C31 witness: the record of AddrA is not terrible and holds two new slots, and an
\* Add of AddrB, which has no record, takes one of them.
C31_Witness ==
    /\ ~failed
    /\ AddrA \in DOMAIN mapAddr
    /\ AddrB \notin DOMAIN mapAddr
    /\ InfoA.nRefCount = 2
    /\ ~IsTerrible(InfoA, now)
    /\ \E addr \in RoutableAddCalls, source \in Sources :
           LET S1 == Add_(St, addr, source, 0, now, 0).st
           IN  /\ addr.ip = AddrB
               /\ Displaced(S1) # {}
               /\ S1.mapInfo[mapAddr[AddrA]].nRefCount = 1
               /\ S1.mapInfo[S1.mapAddr[AddrB]].nRefCount = 1

\* The slots of table vv that hold nId.
HoldersIn(vv, nId) == {s \in DOMAIN vv : vv[s] = nId}

\* One call, or one iteration of the loop of ResolveCollisions_, takes the manager
\* from S to S1: no assertion has failed; a record that is gone was not in tried
\* and no slot holds its id; a record that was in tried is either still in its
\* tried slot or is in exactly one new slot with refcount 1.
KeepsTried(S, S1) ==
    /\ ~S1.failed
    /\ \A nId \in DOMAIN S.mapInfo :
           /\ nId \notin DOMAIN S1.mapInfo =>
                  /\ ~S.mapInfo[nId].fInTried
                  /\ HoldersIn(S1.vvNew, nId) = {}
                  /\ HoldersIn(S1.vvTried, nId) = {}
           /\ S.mapInfo[nId].fInTried =>
                  /\ nId \in DOMAIN S1.mapInfo
                  /\ IF S1.mapInfo[nId].fInTried
                     THEN /\ HoldersIn(S1.vvTried, nId) = HoldersIn(S.vvTried, nId)
                          /\ HoldersIn(S1.vvNew, nId) = {}
                          /\ S1.mapInfo[nId].nRefCount = 0
                     ELSE /\ HoldersIn(S1.vvTried, nId) = {}
                          /\ Cardinality(HoldersIn(S1.vvNew, nId)) = 1
                          /\ S1.mapInfo[nId].nRefCount = 1

\* C32: in every call of Add and of Good and in every iteration of the loop of
\* ResolveCollisions, a record is removed from the store only when it is not in
\* tried and holds no new slot; a record in tried is never deleted and leaves
\* tried only by being demoted into a new slot with refcount 1.
C32_TriedNeverDeleted ==
    ~failed =>
        /\ \A ip \in EvictAddrs, source \in EvictSources :
               KeepsTried(St, Add_(St, [ip |-> ip, port |-> DefaultPort, nTime |-> now,
                                        nServices |-> {0}], source, 0, now, 0).st)
        /\ \A ip \in EvictAddrs, test_before_evict \in BOOLEAN, t \in CallTimes :
               KeepsTried(St, Good_(St, [ip |-> ip, port |-> DefaultPort],
                                    test_before_evict, t))
        /\ LET ids == SortedIds(m_tried_collisions)
           IN  \A k \in 1..Len(ids) :
                   LET S == ResolveFrom(St, SubSeq(ids, 1, k - 1), now)
                   IN  KeepsTried(S, ResolveOne(S, ids[k], now))

\* C32 witness: a record is in tried, a second one holds the new slot the first
\* would be demoted to, and a third one is promoted by ResolveCollisions: the first
\* leaves tried for that new slot and the second is deleted.
C32_Witness ==
    /\ ~failed
    /\ \E old, other, cand \in DOMAIN mapInfo :
           LET S1 == ResolveCollisions_(St, now)
           IN  /\ mapInfo[old].fInTried
               /\ ~mapInfo[other].fInTried
               /\ cand \in m_tried_collisions
               /\ other \notin DOMAIN S1.mapInfo
               /\ S1.mapInfo[cand].fInTried
               /\ ~S1.mapInfo[old].fInTried
               /\ S1.mapInfo[old].nRefCount = 1
               /\ HoldersIn(S1.vvNew, old) = HoldersIn(vvNew, other)

\* The occupant of the tried slot of record id_new in manager S, -1 when the slot
\* is empty.
OccupantIn(S, id_new) ==
    LET info_new == S.mapInfo[id_new]
        tried_bucket == GetTriedBucket(info_new, S.nKey, S.m_asmap)
    IN  Slot(S.vvTried, tried_bucket,
             GetBucketPosition(info_new, S.nKey, FALSE, tried_bucket))

\* C33: a record that is in tried with a last success within the last 4 hours is
\* in the same tried slot after ResolveCollisions; every iteration of the loop
\* whose entry has such an occupant in its target slot erases the entry and
\* changes neither table, and no such entry is left when the call returns.
C33_RecentOccupantStays ==
    ~failed =>
        LET ids == SortedIds(m_tried_collisions)
            S2 == ResolveCollisions_(St, now)
        IN  /\ \A A \in DOMAIN mapInfo :
                   (mapInfo[A].fInTried /\ RecentSuccess(A)) =>
                       /\ A \in DOMAIN S2.mapInfo
                       /\ S2.mapInfo[A].fInTried
                       /\ HoldersIn(S2.vvTried, A) = HoldersIn(vvTried, A)
            /\ \A k \in 1..Len(ids) :
                   LET S == ResolveFrom(St, SubSeq(ids, 1, k - 1), now)
                       id_old == IF ids[k] \in DOMAIN S.mapInfo
                                 THEN OccupantIn(S, ids[k]) ELSE -1
                       S1 == ResolveOne(S, ids[k], now)
                   IN  (id_old \in DOMAIN S.mapInfo
                        /\ HasRecentSuccess(S.mapInfo[id_old], now)) =>
                           /\ ~S1.failed
                           /\ S1.m_tried_collisions = S.m_tried_collisions \ {ids[k]}
                           /\ ids[k] \notin S2.m_tried_collisions
                           /\ S1.vvTried = S.vvTried
                           /\ S1.vvNew = S.vvNew
                           /\ S1.mapInfo = S.mapInfo

\* C33 witness: B waits for the tried slot of A, whose last success is at the
\* clock's time while B's is hours old, and the call that resolves the collision
\* leaves A in the slot.
C33_Witness ==
    /\ ~failed
    /\ \E B, A \in DOMAIN mapInfo :
           /\ Collides(B, A)
           /\ mapInfo[A].fInTried
           /\ mapInfo[A].nLastSuccess = now
           /\ mapInfo[B].nLastSuccess = HoursAgo
           /\ now - mapInfo[B].nLastSuccess > ADDRMAN_TEST_WINDOW
           /\ ResolveCollisions_(St, now).m_tried_collisions = m_tried_collisions \ {B}
           /\ ResolveCollisions_(St, now).vvTried = vvTried

\* The candidate's last success is more than 40 minutes old and the occupant has
\* had no success in the last 4 hours.
PendingLong(id_new, id_old) ==
    /\ now - mapInfo[id_new].nLastSuccess > ADDRMAN_TEST_WINDOW
    /\ ~RecentSuccess(id_old)

\* C34: if B is in the collision set against occupant A, B's last success is more
\* than 40 minutes old and A has had no success in the last 4 hours, then
\* ResolveCollisions ends with A out of tried, B in tried in A's slot and B out of
\* the collision set, whatever A's last-try time is.
C34_PendingLongReplaced ==
    \A B, A \in DOMAIN mapInfo :
        (~failed /\ Collides(B, A) /\ PendingLong(B, A)) =>
            LET S1 == ResolveCollisions_(St, now)
            IN  /\ ~S1.failed
                /\ A \in DOMAIN S1.mapInfo => ~S1.mapInfo[A].fInTried
                /\ B \in DOMAIN S1.mapInfo
                /\ S1.mapInfo[B].fInTried
                /\ Slot(S1.vvTried, TriedSlotOf(mapInfo[A])[1], TriedSlotOf(mapInfo[A])[2]) = B
                /\ B \notin S1.m_tried_collisions

\* The CAddress part of a record: what GetAddr_ copies into its result.
AddressOf(info) ==
    [ip |-> info.ip, port |-> info.port, nTime |-> info.nTime,
     nServices |-> info.nServices]

\* C35: every address GetAddr returns is the address of a record of the store
\* that is not terrible at the time of the call, and no record is returned twice.
C35_GetAddrGoodDistinct ==
    \A max_addresses \in {0, 1}, max_pct \in {0, 50},
       rnds \in GetAddrDraws(Len(vRandom)) :
        ~failed =>
            LET r == GetAddr_(St, max_addresses, max_pct, now, rnds)
            IN  /\ ~r.st.failed
                /\ \A i \in 1..Len(r.ret) :
                       \E nId \in DOMAIN mapInfo :
                           /\ AddressOf(mapInfo[nId]) = AddressOf(r.ret[i])
                           /\ ~IsTerrible(mapInfo[nId], now)
                           /\ nId \in DOMAIN r.st.mapInfo
                /\ \A i, j \in 1..Len(r.ret) : i # j => r.ret[i].ip # r.ret[j].ip

\* C35 witness: the store holds a terrible record and one that is not, and a
\* GetAddr call without limits returns the second one only.
C35_Witness ==
    /\ ~failed
    /\ \E bad, good \in DOMAIN mapInfo :
           /\ IsTerrible(mapInfo[bad], now)
           /\ ~IsTerrible(mapInfo[good], now)
           /\ \E rnds \in GetAddrDraws(Len(vRandom)) :
                  LET r == GetAddr_(St, 0, 0, now, rnds)
                  IN  /\ Len(r.ret) = 1
                      /\ r.ret[1].ip = mapInfo[good].ip
                      /\ r.st.vRandom # vRandom

\* C36: Attempt(A, count_failure, t) on the record of A sets its last try to t,
\* and raises its attempt counter, by one, exactly when count_failure is set and
\* its last counted attempt is older than the last Good time, and never otherwise;
\* with times that never decrease, the counter is at most one above the value it
\* had after the last Good call, however many Attempt calls were made since.
C36_AttemptCountsOncePerGood ==
    (~failed /\ AddrA \in DOMAIN mapAddr) =>
        /\ \A fCountFailure \in BOOLEAN, nTime \in {now, now + 1} :
               LET S1 == Attempt_(St, [ip |-> AddrA, port |-> InfoA.port],
                                  fCountFailure, nTime)
                   info == S1.mapInfo[mapAddr[AddrA]]
                   counted == fCountFailure /\ InfoA.nLastCountAttempt < nLastGood
               IN  /\ info.nLastTry = nTime
                   /\ info.nAttempts = InfoA.nAttempts + (IF counted THEN 1 ELSE 0)
                   /\ info.nLastCountAttempt
                          = (IF counted THEN nTime ELSE InfoA.nLastCountAttempt)
        /\ InfoA.nAttempts <= attemptRun.base + 1

\* C36 witness: since the last Good call the clock has advanced and more than two
\* Attempt calls were made, at different times, and one was counted.
C36_Witness ==
    /\ ~failed
    /\ AddrA \in DOMAIN mapAddr
    /\ nLastGood > 1
    /\ Len(attemptRun.times) > 2
    /\ attemptRun.times[1] < attemptRun.times[Len(attemptRun.times)]
    /\ InfoA.nLastCountAttempt >= nLastGood
    /\ InfoA.nAttempts = attemptRun.base + 1

\* The fields of a record that Good_ writes.
Statistics(info) ==
    [nLastSuccess |-> info.nLastSuccess, nLastTry |-> info.nLastTry,
     nAttempts |-> info.nAttempts]

\* Good_ finds the record of addr in the new table and its tried slot occupied.
TargetOccupied(addr) ==
    /\ addr.ip \in DOMAIN mapAddr
    /\ mapAddr[addr.ip] \in DOMAIN mapInfo
    /\ ~ServiceDiffers(mapInfo[mapAddr[addr.ip]], addr)
    /\ ~mapInfo[mapAddr[addr.ip]].fInTried
    /\ NewHolders(mapAddr[addr.ip]) # {}
    /\ OccupantOf(mapAddr[addr.ip]) # -1

\* C37: Good(addr, test_before_evict = true, t) leaves every record of the tried
\* table in its slot; when the tried slot of the candidate is occupied, both
\* tables, all refcounts, nNew and nTried are unchanged, and nothing changes but
\* the candidate's statistics, the last-good time and the collision set, which
\* gains at most the candidate's id.
C37_TestBeforeEvictKeepsTried ==
    \A addr \in [ip : Routable, port : Ports], nTime \in CallTimes :
        ~failed =>
            LET S1 == Good_(St, addr, TRUE, nTime)
            IN  /\ ~S1.failed
                /\ \A s \in DOMAIN vvTried : Slot(S1.vvTried, s[1], s[2]) = vvTried[s]
                /\ \A nId \in DOMAIN mapInfo :
                       mapInfo[nId].fInTried =>
                           nId \in DOMAIN S1.mapInfo /\ S1.mapInfo[nId].fInTried
                /\ TargetOccupied(addr) =>
                       /\ S1.vvNew = vvNew
                       /\ S1.vvTried = vvTried
                       /\ S1.nNew = nNew
                       /\ S1.nTried = nTried
                       /\ DOMAIN S1.mapInfo = DOMAIN mapInfo
                       /\ \A nId \in DOMAIN mapInfo :
                              /\ S1.mapInfo[nId].nRefCount = mapInfo[nId].nRefCount
                              /\ nId # mapAddr[addr.ip] => S1.mapInfo[nId] = mapInfo[nId]
                              /\ [S1.mapInfo[nId] EXCEPT !.nLastSuccess = 0, !.nLastTry = 0,
                                                         !.nAttempts = 0]
                                     = [mapInfo[nId] EXCEPT !.nLastSuccess = 0,
                                                            !.nLastTry = 0, !.nAttempts = 0]
                       /\ Statistics(S1.mapInfo[mapAddr[addr.ip]])
                              = [nLastSuccess |-> nTime, nLastTry |-> nTime, nAttempts |-> 0]
                       /\ S1.nLastGood = nTime
                       /\ S1.m_tried_collisions \subseteq m_tried_collisions \cup {mapAddr[addr.ip]}
                       /\ m_tried_collisions \subseteq S1.m_tried_collisions
                       /\ [S1 EXCEPT !.mapInfo = mapInfo, !.nLastGood = nLastGood,
                                      !.m_tried_collisions = m_tried_collisions] = St

\* C37 witness: B is in the new table, its tried slot is held by A, and
\* Good(B, test_before_evict = true) puts B's id into the collision set.
C37_Witness ==
    /\ ~failed
    /\ \E A, B \in DOMAIN mapInfo :
           LET addr == [ip |-> mapInfo[B].ip, port |-> mapInfo[B].port]
           IN  /\ TargetOccupied(addr)
               /\ OccupantOf(B) = A
               /\ A # B
               /\ B \notin m_tried_collisions
               /\ Good_(St, addr, TRUE, now).m_tried_collisions
                      = m_tried_collisions \cup {B}

\* C38: Clear() leaves the manager as the constructor does: no records, every
\* slot empty, nNew = nTried = nIdCount = 0, last-good time 1 and an empty
\* collision set; so every id of the collision set that has a record names the
\* record Good was called for when the id was inserted, a record with a success.
C38_ClearAsConstructed ==
    ~failed =>
        /\ \A deterministic \in BOOLEAN, key \in Keys :
               LET S1 == Clear(St, deterministic, key)
               IN  /\ EmptyStore(S1)
                   /\ S1.nIdCount = 0
                   /\ S1.nLastGood = 1
                   /\ S1.m_tried_collisions = {}
        /\ \A nId \in m_tried_collisions :
               nId \in DOMAIN mapInfo => mapInfo[nId].nLastSuccess # 0

\* C39: whenever Add(addr, source, penalty) returns true, a record for addr is
\* present when the call returns and its id occupies at least one new slot.
C39_AddedIsPresent ==
    \A addr \in AnyAddCalls, source \in Sources, nTimePenalty \in Penalties,
       rnd \in {0, 1} :
        ~failed =>
            LET r == Add_(St, addr, source, nTimePenalty, now, rnd)
            IN  r.ret =>
                    /\ ~r.st.failed
                    /\ addr.ip \in DOMAIN r.st.mapAddr
                    /\ r.st.mapAddr[addr.ip] \in DOMAIN r.st.mapInfo
                    /\ HoldersIn(r.st.vvNew, r.st.mapAddr[addr.ip]) # {}

\* C40: from the empty manager, no sequence of public operations makes an
\* assertion of Delete, ClearNew, MakeTried, SwapRandom, GetAddr_ or Select_ fail.
C40_NoAssertionFails == ~failed

\* C40 witness: both records were promoted in turn to the tried slot they share;
\* MakeTried has taken the first out of the slot and entered it into its new
\* slot again, and no assertion has failed.
C40_Witness ==
    /\ ~failed
    /\ nTried = 1
    /\ nNew = 1
    /\ \E old, cand \in DOMAIN mapInfo :
           /\ mapInfo[cand].fInTried
           /\ ~mapInfo[old].fInTried
           /\ mapInfo[old].nLastSuccess # 0
           /\ mapInfo[old].nRefCount = 1
           /\ Cardinality(NewHolders(old)) = 1
           /\ TriedSlotOf(mapInfo[old]) = TriedSlotOf(mapInfo[cand])

====
